---- MODULE Spec2Model ----
(***************************************************************************)
(* Vanity address search: the three in-process generators                  *)
(* (VanityAddressGenerator for Base58 addresses, EVMVanityAddressGenerator *)
(* and EthereumVanityAddressGenerator for hex addresses), the unified      *)
(* facade that routes to the first two, and EVMWorkerManager, which runs   *)
(* one search in a web worker.                                             *)
(*                                                                         *)
(* Strings are sequences of one-character strings.  JavaScript runs one    *)
(* callback at a time: a search owns the thread from the moment it is      *)
(* called or resumed until it awaits or returns, which the variable        *)
(* active records.                                                         *)
(***************************************************************************)
EXTENDS Integers, Sequences, FiniteSets, TLC

(***************************************************************************)
(* Bounds of the model.                                                    *)
(***************************************************************************)
\* The clock Date.now() ranges over 0..MaxNow.
MaxNow == 2
\* Generated addresses have AddrLen characters (after "0x" for hex).
AddrLen == 2
\* The Base58 and Ethereum generators report progress and yield every 1000
\* attempts (vanity-generator.ts:79, ethereum-vanity-generator.ts:82); the
\* model scales that cadence down to YieldEvery attempts.
YieldEvery == 2
\* The EVM generator works in batches of 100 wallets (BATCH_SIZE); the model
\* scales the batch down.
BATCH_SIZE == 2
\* The patterns validateCriteria is given have at most MaxPatLen characters.
MaxPatLen == 1
\* onProgress is followed for at most MaxProgress calls per worker.
MaxProgress == 2
\* generateMultipleVanityAddresses is asked for at most MaxCount results.
MaxCount == 2

\* The longest constraint of the criteria the estimators are given, but for
\* the long ones below.
MaxEstLen == 3

\* The length of a hex prefix whose estimated probability is below 2^-1022.
OverflowLen == 256

\* No call, no error.
None == "none"

\* The null a search returns when it ends without a match.
Null == [null |-> TRUE]

(***************************************************************************)
(* Alphabets and string functions.                                         *)
(***************************************************************************)
Digits == {"0", "1", "2", "3", "4", "5", "6", "7", "8", "9"}

UpperSeq == << "A", "B", "C", "D", "E", "F", "G", "H", "I", "J", "K", "L", "M",
               "N", "O", "P", "Q", "R", "S", "T", "U", "V", "W", "X", "Y", "Z" >>

LowerSeq == << "a", "b", "c", "d", "e", "f", "g", "h", "i", "j", "k", "l", "m",
               "n", "o", "p", "q", "r", "s", "t", "u", "v", "w", "x", "y", "z" >>

Range(s) == {s[i] : i \in 1..Len(s)}

\* The 58 symbols of the Base58 alphabet: no 0, O, I, l.
Base58Alphabet == ((Digits \cup Range(UpperSeq)) \cup Range(LowerSeq))
                      \ {"0", "O", "I", "l"}

\* The characters the pattern /^[0-9a-fA-F]*$/ accepts.
HexAlphabet == (Digits \cup {"a", "b", "c", "d", "e", "f"})
                   \cup {"A", "B", "C", "D", "E", "F"}

\* String.prototype.toLowerCase, character by character.
ToLowerChar(ch) ==
    IF \E i \in 1..26 : UpperSeq[i] = ch
    THEN LowerSeq[CHOOSE i \in 1..26 : UpperSeq[i] = ch]
    ELSE ch

\* A toLowerCase that leaves the string as it is.
KeepCase(s) == s

toLowerCase(s) == [i \in 1..Len(s) |-> ToLowerChar(s[i])]

\* String.prototype.startsWith / endsWith / includes.
startsWithStr(s, p) == Len(p) <= Len(s) /\ SubSeq(s, 1, Len(p)) = p

endsWithStr(s, p) ==
    Len(p) <= Len(s) /\ SubSeq(s, Len(s) - Len(p) + 1, Len(s)) = p

includesStr(s, p) ==
    \E i \in 1..(Len(s) - Len(p) + 1) : SubSeq(s, i, i + Len(p) - 1) = p

\* A JavaScript string is truthy when it is not empty.
Truthy(s) == Len(s) > 0

\* hexPattern.test(s)
hexPatternTest(s) == \A i \in 1..Len(s) : s[i] \in HexAlphabet

(***************************************************************************)
(* The three matchers.                                                     *)
(***************************************************************************)
\* A matcher that is content with one constraint that holds.
MatchOnAny(subject, cr) ==
    IF cr.caseSensitive
    THEN \/ (Truthy(cr.startsWith) /\ startsWithStr(subject, cr.startsWith))
         \/ (Truthy(cr.endsWith) /\ endsWithStr(subject, cr.endsWith))
         \/ (Truthy(cr.contains) /\ includesStr(subject, cr.contains))
    ELSE \/ (Truthy(cr.startsWith)
                /\ startsWithStr(toLowerCase(subject), toLowerCase(cr.startsWith)))
         \/ (Truthy(cr.endsWith)
                /\ endsWithStr(toLowerCase(subject), toLowerCase(cr.endsWith)))
         \/ (Truthy(cr.contains)
                /\ includesStr(toLowerCase(subject), toLowerCase(cr.contains)))

\* The body shared by the matchers once the subject string is chosen.
MatchOn(subject, cr) ==
    IF cr.caseSensitive
    THEN /\ ~(Truthy(cr.startsWith) /\ ~startsWithStr(subject, cr.startsWith))
         /\ ~(Truthy(cr.endsWith) /\ ~endsWithStr(subject, cr.endsWith))
         /\ ~(Truthy(cr.contains) /\ ~includesStr(subject, cr.contains))
    ELSE /\ ~(Truthy(cr.startsWith)
                /\ ~startsWithStr(toLowerCase(subject), toLowerCase(cr.startsWith)))
         /\ ~(Truthy(cr.endsWith)
                /\ ~endsWithStr(toLowerCase(subject), toLowerCase(cr.endsWith)))
         /\ ~(Truthy(cr.contains)
                /\ ~includesStr(toLowerCase(subject), toLowerCase(cr.contains)))

\* VanityAddressGenerator.matchesCriteria
SolMatchesCriteria(publicKey, cr) == MatchOn(publicKey, cr)

\* EVMVanityAddressGenerator.matchesCriteria: the "0x" is removed first.
addressWithoutPrefix(address) ==
    IF startsWithStr(address, << "0", "x" >>)
    THEN SubSeq(address, 3, Len(address))
    ELSE address

EvmMatchesCriteria(address, cr) == MatchOn(addressWithoutPrefix(address), cr)

\* EthereumVanityAddressGenerator.matchesCriteria: the whole address.
EthMatchesCriteria(address, cr) == MatchOn(address, cr)

(***************************************************************************)
(* Validation.                                                             *)
(***************************************************************************)
\* The checks at the head of EVMVanityAddressGenerator.generateVanityAddress
\* (and, word for word, of the Ethereum generator): the message of the Error
\* thrown, or None.
HexValidationError(cr) ==
    IF ~Truthy(cr.startsWith) /\ ~Truthy(cr.endsWith) /\ ~Truthy(cr.contains)
    THEN "At least one criteria must be specified"
    ELSE IF Truthy(cr.startsWith) /\ ~hexPatternTest(cr.startsWith)
    THEN "Starts with must contain only valid hex characters"
    ELSE IF Truthy(cr.endsWith) /\ ~hexPatternTest(cr.endsWith)
    THEN "Ends with must contain only valid hex characters"
    ELSE IF Truthy(cr.contains) /\ ~hexPatternTest(cr.contains)
    THEN "Contains must contain only valid hex characters"
    ELSE None

\* invalidChars.find(char => s.includes(char)) is truthy: some of 0, O, I, l
\* occurs in s.
invalidChars == << "0", "O", "I", "l" >>

FindInvalid(s) == \E k \in 1..Len(invalidChars) : includesStr(s, << invalidChars[k] >>)

\* UnifiedVanityAddressGenerator.validateCriteria: the list of issues.
validateCriteria(addressType, cr) ==
    IF addressType = "solana"
    THEN (IF Truthy(cr.startsWith) /\ FindInvalid(cr.startsWith)
          THEN << "Starts With cannot contain (not in Base58 alphabet)" >> ELSE << >>)
         \o (IF Truthy(cr.endsWith) /\ FindInvalid(cr.endsWith)
             THEN << "Ends With cannot contain (not in Base58 alphabet)" >> ELSE << >>)
         \o (IF Truthy(cr.contains) /\ FindInvalid(cr.contains)
             THEN << "Contains cannot contain (not in Base58 alphabet)" >> ELSE << >>)
    ELSE IF addressType = "evm"
    THEN (IF Truthy(cr.startsWith) /\ ~hexPatternTest(cr.startsWith)
          THEN << "Starts With must contain only valid hex characters" >> ELSE << >>)
         \o (IF Truthy(cr.endsWith) /\ ~hexPatternTest(cr.endsWith)
             THEN << "Ends With must contain only valid hex characters" >> ELSE << >>)
         \o (IF Truthy(cr.contains) /\ ~hexPatternTest(cr.contains)
             THEN << "Contains must contain only valid hex characters" >> ELSE << >>)
    ELSE << >>

(***************************************************************************)
(* Inputs of the model.                                                    *)
(***************************************************************************)
\* Sequences of exactly n characters of S.
RECURSIVE SeqsOfLen(_, _)
SeqsOfLen(S, n) ==
    IF n = 0 THEN {<< >>}
    ELSE {<< ch >> \o t : ch \in S, t \in SeqsOfLen(S, n - 1)}

\* Characters of generated addresses: Base58 public keys mix cases and have no
\* 0; ethers returns checksummed (mixed-case) hex addresses.
SolAddrChars == {"1", "A"}
HexAddrChars == {"0", "A"}

\* Keypair.generate(): a public key and its secret key.
SolKeypairs ==
    {[publicKey |-> a, secretKey |-> << "sk" >> \o a] : a \in SeqsOfLen(SolAddrChars, AddrLen)}

\* ethers.Wallet.createRandom(): address "0x" + body, private and public key.
Wallets ==
    {[address |-> << "0", "x" >> \o a,
      privateKey |-> << "sk" >> \o a,
      publicKey |-> << "pk" >> \o a] : a \in SeqsOfLen(HexAddrChars, AddrLen)}

Criteria(sw, ew, ct, cs) ==
    [startsWith |-> sw, endsWith |-> ew, contains |-> ct, caseSensitive |-> cs]

\* The criteria searches are run with.  "0" is a hex digit outside Base58,
\* "-" is outside both alphabets, "a" matches an address only when case is
\* ignored.
SearchCriteria ==
    { Criteria(<< >>, << >>, << >>, FALSE),
      Criteria(<< "a" >>, << >>, << >>, FALSE),
      Criteria(<< "a" >>, << >>, << >>, TRUE),
      Criteria(<< "0" >>, << >>, << >>, FALSE),
      Criteria(<< >>, << "A" >>, << "a", "A" >>, FALSE),
      Criteria(<< >>, << >>, << "-" >>, FALSE) }

\* Budgets a call may be given.
MaxAttemptsSet == {1, YieldEvery + 1}
MaxTimeSet == {1, MaxNow}

\* The ways a search is entered: a generator called directly, or the facade
\* with an address type.
Entries == {"solana", "evm", "ethereum", "facade_solana", "facade_evm"}

\* The generator class a way of entry runs.
GenOf(e) ==
    CASE e \in {"solana", "facade_solana"} -> "solana"
      [] e \in {"evm", "facade_evm"} -> "evm"
      [] OTHER -> "ethereum"

ViaFacade(e) == e \in {"facade_solana", "facade_evm"}

\* Two calls may overlap on the generator instance.
Calls == {"first", "second"}

(***************************************************************************)
(* JavaScript numbers.  A number is an IEEE-754 binary64 value: every      *)
(* arithmetic operation returns the exact result rounded to 53 significant *)
(* bits (to nearest, ties to even), with gradual underflow below 2^-1022   *)
(* and Infinity from 2^1024 on.  A finite value is sign * m * 2^e, with m  *)
(* a natural number of any size kept as little-endian limbs.               *)
(***************************************************************************)
\* The significand of a number has 53 bits.
MantissaBits == 53

\* The least exponent of the last bit of a number: 2^-1074 is the least
\* positive number.
MinExp == -1074

\* 2^MaxExp is the least magnitude that rounds to Infinity.
MaxExp == 1024

Max(a, b) == IF a >= b THEN a ELSE b

LimbBase == 2^15

RECURSIVE SmallBits(_)
SmallBits(n) == IF n = 0 THEN 0 ELSE 1 + SmallBits(n \div 2)

LimbBits == SmallBits(LimbBase - 1)

Limb(a, i) == IF i <= Len(a) THEN a[i] ELSE 0

RECURSIVE BTrim(_)
BTrim(a) ==
    IF a = << >> THEN a
    ELSE IF a[Len(a)] = 0 THEN BTrim(SubSeq(a, 1, Len(a) - 1)) ELSE a

RECURSIVE BFromInt(_)
BFromInt(n) == IF n = 0 THEN << >> ELSE << n % LimbBase >> \o BFromInt(n \div LimbBase)

RECURSIVE BAddFrom(_, _, _, _)
BAddFrom(a, b, i, c) ==
    IF i > Len(a) /\ i > Len(b) THEN BFromInt(c)
    ELSE LET s == Limb(a, i) + Limb(b, i) + c
         IN << s % LimbBase >> \o BAddFrom(a, b, i + 1, s \div LimbBase)

BAdd(a, b) == BAddFrom(a, b, 1, 0)

\* a - b, for a >= b
RECURSIVE BSubFrom(_, _, _, _)
BSubFrom(a, b, i, borrow) ==
    IF i > Len(a) THEN << >>
    ELSE LET d == a[i] - Limb(b, i) - borrow
         IN IF d < 0 THEN << d + LimbBase >> \o BSubFrom(a, b, i + 1, 1)
            ELSE << d >> \o BSubFrom(a, b, i + 1, 0)

BSub(a, b) == BTrim(BSubFrom(a, b, 1, 0))

RECURSIVE BCmpFrom(_, _, _)
BCmpFrom(a, b, i) ==
    IF i = 0 THEN 0
    ELSE IF a[i] # b[i] THEN (IF a[i] < b[i] THEN -1 ELSE 1)
    ELSE BCmpFrom(a, b, i - 1)

\* -1, 0 or 1 as a is less than, equal to or greater than b
BCmp(a, b) ==
    IF Len(a) # Len(b) THEN (IF Len(a) < Len(b) THEN -1 ELSE 1)
    ELSE BCmpFrom(a, b, Len(a))

RECURSIVE BMulSmallFrom(_, _, _, _)
BMulSmallFrom(a, k, i, c) ==
    IF i > Len(a) THEN BFromInt(c)
    ELSE LET s == a[i] * k + c
         IN << s % LimbBase >> \o BMulSmallFrom(a, k, i + 1, s \div LimbBase)

\* a * k, for 0 <= k <= LimbBase
BMulSmall(a, k) == IF k = 0 \/ a = << >> THEN << >> ELSE BMulSmallFrom(a, k, 1, 0)

\* a * LimbBase^n
BShiftLimbs(a, n) == IF a = << >> THEN a ELSE [i \in 1..(n + Len(a)) |-> IF i <= n THEN 0 ELSE a[i - n]]

RECURSIVE BMulFrom(_, _, _)
BMulFrom(a, b, j) ==
    IF j > Len(b) THEN << >>
    ELSE BAdd(BShiftLimbs(BMulSmall(a, b[j]), j - 1), BMulFrom(a, b, j + 1))

BMul(a, b) == BMulFrom(a, b, 1)

\* a^n, by squaring
RECURSIVE BPow(_, _)
BPow(a, n) ==
    IF n = 0 THEN << 1 >>
    ELSE LET h == BPow(a, n \div 2)
             sq == BMul(h, h)
         IN IF n % 2 = 1 THEN BMul(sq, a) ELSE sq

\* quotient and remainder of a by k, for 0 < k <= LimbBase
RECURSIVE BDivSmallFrom(_, _, _, _)
BDivSmallFrom(a, k, i, rem) ==
    IF i = 0 THEN [q |-> << >>, r |-> rem]
    ELSE LET cur == rem * LimbBase + a[i]
             rest == BDivSmallFrom(a, k, i - 1, cur % k)
         IN [q |-> rest.q \o << cur \div k >>, r |-> rest.r]

BDivSmall(a, k) ==
    LET d == BDivSmallFrom(a, k, Len(a), 0) IN [q |-> BTrim(d.q), r |-> BFromInt(d.r)]

\* the number of bits of a
BBits(a) == IF a = << >> THEN 0 ELSE LimbBits * (Len(a) - 1) + SmallBits(a[Len(a)])

BOdd(a) == a # << >> /\ a[1] % 2 = 1

\* a * 2^n
BShl(a, n) == BShiftLimbs(BMulSmall(a, 2^(n % LimbBits)), n \div LimbBits)

\* a \div 2^n
BShr(a, n) ==
    IF n \div LimbBits >= Len(a) THEN << >>
    ELSE BDivSmall(SubSeq(a, (n \div LimbBits) + 1, Len(a)), 2^(n % LimbBits)).q

\* One bit of a long division: q is the quotient so far and r2 the remainder
\* so far with the next bit of the dividend appended.
BLongDivBit(den, q, r2) ==
    IF BCmp(r2, den) >= 0
    THEN [q |-> BAdd(BAdd(q, q), << 1 >>), r |-> BSub(r2, den)]
    ELSE [q |-> BAdd(q, q), r |-> r2]

\* One limb of a long division, bit by bit from bit j of the limb down: q and
\* r are the quotient and the remainder so far, s those after bit j.
RECURSIVE BLongDivBits(_, _, _, _, _)
BLongDivBitsBelow(den, limb, j, s) ==
    IF Len(s.q) + Len(s.r) >= 0
    THEN BLongDivBits(den, limb, j - 1, s.q, s.r)
    ELSE s

BLongDivBits(den, limb, j, q, r) ==
    IF j = 0 THEN [q |-> q, r |-> r]
    ELSE BLongDivBitsBelow(den, limb, j,
             BLongDivBit(den, q,
                 BAdd(BAdd(r, r), BFromInt((limb \div 2^(j - 1)) % 2))))

\* quotient and remainder of num by den, limb by limb from limb i of num
\* down: s is the quotient and the remainder after limb i.
RECURSIVE BLongDiv(_, _, _, _, _)
BLongDivBelow(num, den, i, s) ==
    IF Len(s.q) + Len(s.r) >= 0
    THEN BLongDiv(num, den, i - 1, s.q, s.r)
    ELSE s

BLongDiv(num, den, i, q, r) ==
    IF i = 0 THEN [q |-> q, r |-> r]
    ELSE BLongDivBelow(num, den, i, BLongDivBits(den, num[i], LimbBits, q, r))

BDivMod(num, den) ==
    IF Len(den) = 1 THEN BDivSmall(num, den[1])
    ELSE BLongDiv(num, den, Len(num), << >>, << >>)

Zero == [kind |-> "finite", sign |-> 1, m |-> << >>, e |-> 0]

\* Infinity
Infinity == [kind |-> "infinite", sign |-> 1, m |-> << >>, e |-> 0]

\* The number sign * m * 2^e, m of at most 53 bits: Infinity from 2^1024 on.
Pack(sign, m, e) ==
    IF BBits(m) + e > MaxExp THEN [Infinity EXCEPT !.sign = sign]
    ELSE [kind |-> "finite", sign |-> sign, m |-> m, e |-> e]

\* q, or q + 1 when the bits dropped are more than half of the last bit kept
\* (c > 0), or half of it (c = 0) and q is odd.
TiesToEven(q, c) ==
    IF c > 0 \/ (c = 0 /\ BOdd(q)) THEN BAdd(q, << 1 >>) ELSE q

\* N \div 2^drop rounded to nearest, q being N \div 2^drop.
Nearest(N, q, drop) ==
    TiesToEven(q, BCmp(BSub(N, BShl(q, drop)), BShl(<< 1 >>, drop - 1)))

\* The number sign * q1 * 2^e of a rounded q1, which may have a 54th bit.
PackRounded(sign, q1, e) ==
    IF q1 = << >> THEN Zero
    ELSE IF BBits(q1) > MantissaBits THEN Pack(sign, BShr(q1, 1), e + 1)
    ELSE Pack(sign, q1, e)

\* The number nearest to sign * N * 2^e when the last drop bits of N are
\* dropped (none, and N shifted left, when drop <= 0).
RoundDropping(sign, N, e, drop) ==
    IF drop <= 0 THEN Pack(sign, BShl(N, -drop), e + drop)
    ELSE PackRounded(sign, Nearest(N, BShr(N, drop), drop), e + drop)

\* The number nearest to sign * N * 2^e, ties to even; its 53 bits are kept
\* left-justified, but for a subnormal one, whose exponent is MinExp.
Round(sign, N, e) ==
    IF N = << >> THEN Zero
    ELSE RoundDropping(sign, N, e, Max(BBits(N) - MantissaBits, MinExp - e))

\* The number of an integer literal or an integer-valued expression.
DFromInt(n) ==
    Round(IF n < 0 THEN -1 ELSE 1, BFromInt(IF n < 0 THEN -n ELSE n), 0)

\* m * 2^e with the trailing zero bits of m moved into e
RECURSIVE OddPart(_, _)
OddPart(m, e) ==
    IF m = << >> \/ BOdd(m) THEN [m |-> m, e |-> e]
    ELSE IF m[1] = 0 THEN OddPart(Tail(m), e + LimbBits)
    ELSE OddPart(BShr(m, 1), e + 1)

DIsZero(x) == x.kind = "finite" /\ x.m = << >>

\* x > 0
DPositive(x) == x.sign = 1 /\ ~DIsZero(x)

\* x < y
DLess(x, y) ==
    IF DIsZero(x) THEN DPositive(y)
    ELSE IF DIsZero(y) THEN x.sign = -1
    ELSE IF x.sign # y.sign THEN x.sign = -1
    ELSE LET less == \* |x| < |y|
                 IF x.kind = "infinite" THEN FALSE
                 ELSE IF y.kind = "infinite" THEN TRUE
                 ELSE IF x.e # y.e THEN x.e < y.e
                 ELSE BCmp(x.m, y.m) < 0
             more == x # y /\ ~less
         IN IF x.sign = 1 THEN less ELSE more

\* Math.min
MathMin(x, y) == IF DLess(y, x) THEN y ELSE x

\* x * y
DMul(x, y) ==
    IF x.kind = "infinite" \/ y.kind = "infinite"
    THEN [Infinity EXCEPT !.sign = x.sign * y.sign]
    ELSE Round(x.sign * y.sign, BMul(x.m, y.m), x.e + y.e)

\* The quotient d.q with a last bit that says whether d.r is not zero.
Sticky(d) == BAdd(BAdd(d.q, d.q), IF d.r = << >> THEN << >> ELSE << 1 >>)

\* x / (den.m * 2^den.e) with x.m taken k bits to the left first
DDivShifted(x, sign, den, k) ==
    Round(sign, Sticky(BDivMod(BShl(x.m, k), den.m)), x.e - den.e - k - 1)

\* x / (den.m * 2^den.e), for den.m odd
DDivOdd(x, sign, den) == DDivShifted(x, sign, den, BBits(den.m) + MantissaBits + 3)

\* x / y, for y finite and not zero: the quotient is taken to 57 bits or more
\* and a last bit that says whether anything was left over, then rounded.
DDiv(x, y) ==
    IF x.kind = "infinite" THEN [Infinity EXCEPT !.sign = x.sign * y.sign]
    ELSE IF DIsZero(x) THEN Zero
    ELSE DDivOdd(x, x.sign * y.sign, OddPart(y.m, y.e))

\* (o.m * 2^o.e)^n with the sign given
PowOdd(sign, o, n) == Round(sign, BPow(o.m, n), o.e * n)

\* Math.pow(x, n) for x finite and n a natural number: the exact power,
\* rounded once.
MathPow(x, n) == PowOdd(IF n % 2 = 0 THEN 1 ELSE x.sign, OddPart(x.m, x.e), n)

\* The least integer not below x, q being the integer part of x
CeilAbove(x, q) ==
    Round(1, IF BShl(q, -x.e) = x.m THEN q ELSE BAdd(q, << 1 >>), 0)

\* Math.ceil(x), for x > 0
MathCeil(x) ==
    IF x.kind = "infinite" \/ x.e >= 0 THEN x ELSE CeilAbove(x, BShr(x.m, -x.e))

(***************************************************************************)
(* The estimators.  They read the length and the truthiness of each        *)
(* constraint, nothing else.                                               *)
(***************************************************************************)
\* const alphabetSize = 58 of VanityAddressGenerator.estimateProbability
SolAlphabetSize == 58

\* const alphabetSize = 16 of the hex generators' estimateProbability
HexAlphabetSize == 16

\* const addressLength = 40 of the hex generators' estimateProbability
addressLength == 40

\* const attemptsPerSecond = 2000 of estimateExpectedTime
attemptsPerSecond == 2000

One == DFromInt(1)

\* if (!caseSensitive) { const caseVariations = Math.pow(2, pattern.length);
\*                       probability *= Math.min(caseVariations, alphabetSize); }
CaseVariations(probability, pattern, caseSensitive, alphabetSize) ==
    IF ~caseSensitive
    THEN DMul(probability,
              MathMin(MathPow(DFromInt(2), Len(pattern)), DFromInt(alphabetSize)))
    ELSE probability

\* if (pattern) { probability *= Math.pow(1 / alphabetSize, pattern.length); ... }
PatternFactor(probability, pattern, caseSensitive, alphabetSize) ==
    IF Truthy(pattern)
    THEN CaseVariations(
             DMul(probability,
                  MathPow(DDiv(One, DFromInt(alphabetSize)), Len(pattern))),
             pattern, caseSensitive, alphabetSize)
    ELSE probability

\* VanityAddressGenerator.estimateProbability
SolEstimateProbability(cr) ==
    PatternFactor(
        PatternFactor(
            PatternFactor(One, cr.startsWith, cr.caseSensitive, SolAlphabetSize),
            cr.endsWith, cr.caseSensitive, SolAlphabetSize),
        cr.contains, cr.caseSensitive, SolAlphabetSize)

\* if (contains) of the hex estimators:
\*   possiblePositions = addressLength - contains.length + 1;
\*   probability *= Math.pow(1 / alphabetSize, contains.length) * possiblePositions;
HexContainsFactor(probability, contains, caseSensitive) ==
    IF Truthy(contains)
    THEN LET possiblePositions == addressLength - Len(contains) + 1
         IN CaseVariations(
                DMul(probability,
                     DMul(MathPow(DDiv(One, DFromInt(HexAlphabetSize)), Len(contains)),
                          DFromInt(possiblePositions))),
                contains, caseSensitive, HexAlphabetSize)
    ELSE probability

\* EVMVanityAddressGenerator.estimateProbability
EvmEstimateProbability(cr) ==
    MathMin(
        HexContainsFactor(
            PatternFactor(
                PatternFactor(One, cr.startsWith, cr.caseSensitive, HexAlphabetSize),
                cr.endsWith, cr.caseSensitive, HexAlphabetSize),
            cr.contains, cr.caseSensitive),
        One)

\* EthereumVanityAddressGenerator.estimateProbability: the same text
EthEstimateProbability(cr) ==
    MathMin(
        HexContainsFactor(
            PatternFactor(
                PatternFactor(One, cr.startsWith, cr.caseSensitive, HexAlphabetSize),
                cr.endsWith, cr.caseSensitive, HexAlphabetSize),
            cr.contains, cr.caseSensitive),
        One)

\* estimateProbability of a way of entry: of the generator, or of the facade
\* that hands the criteria on to the generator of the address type.
estimateProbability(e, cr) ==
    CASE GenOf(e) = "solana" -> SolEstimateProbability(cr)
      [] GenOf(e) = "evm" -> EvmEstimateProbability(cr)
      [] OTHER -> EthEstimateProbability(cr)

\* return probability > 0 ? Math.ceil(1 / probability) : Infinity
estimateExpectedAttempts(probability) ==
    IF DPositive(probability) THEN MathCeil(DDiv(One, probability)) ELSE Infinity

\* if (expectedAttempts === Infinity) return Infinity;
\* return (expectedAttempts / attemptsPerSecond) * 1000
estimateExpectedTime(expectedAttempts) ==
    IF expectedAttempts = Infinity THEN Infinity
    ELSE DMul(DDiv(expectedAttempts, DFromInt(attemptsPerSecond)), DFromInt(1000))

\* The three estimates of a criteria, each computed as the code computes
\* it: the expected attempts from the probability, the expected time from
\* the expected attempts.
EstimatesFromAttempts(probability, expectedAttempts) ==
    [called |-> TRUE,
     probability |-> probability,
     expectedAttempts |-> expectedAttempts,
     expectedTime |-> estimateExpectedTime(expectedAttempts)]

EstimatesFromProbability(probability) ==
    EstimatesFromAttempts(probability, estimateExpectedAttempts(probability))

Estimates(e, cr) == EstimatesFromProbability(estimateProbability(e, cr))

\* The pattern of n characters "a", a character of both alphabets.
Pattern(n) == [i \in 1..n |-> "a"]

\* The constraints of the estimated criteria: up to MaxEstLen characters, and
\* for the hex estimators substrings as long as the address and longer, and
\* a prefix of OverflowLen characters.
ShortPatterns == {Pattern(n) : n \in 0..MaxEstLen}

ShortEstCriteria ==
    [startsWith : ShortPatterns, endsWith : ShortPatterns,
     contains : ShortPatterns, caseSensitive : BOOLEAN]

LongEstCriteria ==
    [startsWith : {Pattern(0), Pattern(2)}, endsWith : {Pattern(0)},
     contains : {Pattern(addressLength)}, caseSensitive : BOOLEAN]
    \cup
    [startsWith : {Pattern(OverflowLen)}, endsWith : {Pattern(0)},
     contains : {Pattern(0)}, caseSensitive : BOOLEAN]

EstInputs ==
    (Entries \X ShortEstCriteria)
    \cup ({e \in Entries : GenOf(e) # "solana"} \X LongEstCriteria)

(***************************************************************************)
(* State.                                                                  *)
(***************************************************************************)
VARIABLES
    entry,       \* how the searches of this run are entered
    criteria,    \* the criteria the searches of this run are given
    now,         \* Date.now()
    active,      \* the call that owns the thread, or None
    isRunning,   \* VanityAddressGenerator.isRunning
    startTime,   \* VanityAddressGenerator.startTime
    shouldStop,  \* shouldStop of the EVM and of the Ethereum generator
    call,        \* per call: its locals, its outcome and what it has done
    worker,      \* EVMWorkerManager.worker: the Worker, or None for null
    wmIsRunning, \* EVMWorkerManager.isRunning
    created,     \* the Workers constructed so far
    terminated,  \* the Workers terminate() has been called on
    promise,     \* per call of the manager: the promise it returned
    progressed,  \* per call of the manager: the onProgress calls made for it
    stopHit,     \* the calls of the manager that were pending at a stop()
    wmOp,        \* the operation of the manager that ran last
    vType,       \* validateCriteria: the address type given
    vCriteria,   \* validateCriteria: the criteria given
    vIssues,     \* the facade operation called with the address type: whether
                 \* one was called, which, the generator it called a method
                 \* of, the error thrown and the issues returned
    eEntry,      \* the estimators: the generator or facade they are called on
    eCriteria,   \* the estimators: the criteria given
    eResult,     \* the estimators: whether called, and the three estimates
    ePrev,       \* the estimators: the expected attempts before a constraint grew
    matchGen,      \* the matcher: the generator class it belongs to
    matchAddress,  \* the matcher: the generated address it is given
    matchCriteria, \* the matcher: the criteria it is given
    matchResult,   \* the matcher: whether called, what it returned, and the
                   \* address of the result the search returns when it accepts
    multi          \* generateMultipleVanityAddresses: its position, count,
                   \* loop index and the results gathered

genVars == << entry, criteria, now, active, isRunning, startTime, shouldStop, call >>

wmVars == << worker, wmIsRunning, created, terminated, promise, progressed, stopHit,
            wmOp >>

valVars == << vType, vCriteria, vIssues >>

estVars == << eEntry, eCriteria, eResult, ePrev >>

matchVars == << matchGen, matchAddress, matchCriteria, matchResult >>

multiVars == << multi >>

vars == << genVars, wmVars, valVars, estVars, matchVars, multiVars >>

\* A call that has not been made yet.
IdleCall ==
    [pc |-> "idle", maxAttempts |-> 0, maxTime |-> 0, attempts |-> 0,
     startTime |-> 0, i |-> 0, result |-> Null, error |-> None,
     \* what the call has done, for the properties:
     gens |-> 0,          \* keypairs generated
     t0 |-> 0,            \* the instant the call started
     over |-> FALSE,      \* elapsed > maxTime when a miss completed or the call ended
     stopGens |-> -1,     \* gens when stop() first came while the call was suspended
     lastProgress |-> 0,  \* the last value given to onProgress
     progressCount |-> 0, \* the number of onProgress calls
     cause |-> "none",    \* the condition that ended the search without a match
     faultAt |-> 0]       \* the attempt at which the generation of a keypair threw

GenInit ==
    /\ entry \in Entries
    /\ criteria \in SearchCriteria
    /\ now = 0
    /\ active = None
    /\ isRunning = FALSE
    /\ startTime = 0
    /\ shouldStop = [g \in {"evm", "ethereum"} |-> FALSE]
    /\ call = [c \in Calls |-> IdleCall]

Gen == GenOf(entry)

\* Time passes.  Only a search in progress reads the clock.
Tick ==
    /\ now < MaxNow
    /\ \E c \in Calls : call[c].pc \notin {"idle", "found", "notfound", "threw"}
    /\ now' = now + 1
    /\ UNCHANGED << wmVars, valVars, estVars, matchVars, multiVars >>
    /\ UNCHANGED << entry, criteria, active, isRunning, startTime, shouldStop, call >>

\* A call begins: its locals at the top of generateVanityAddress.
Begun(c, ma, mt) ==
    [call[c] EXCEPT !.pc = "loop", !.maxAttempts = ma, !.maxTime = mt,
                    !.attempts = 0, !.startTime = now, !.t0 = now]

\* A call may be made when no JavaScript is running; the second call of a run
\* is made after the first.
\* The calls of a run are given the same options object: the second call has
\* the budgets of the first.
MayStart(c, ma, mt) ==
    /\ active = None
    /\ call[c].pc = "idle"
    /\ c = "second" => /\ call["first"].pc # "idle"
                       /\ ma = call["first"].maxAttempts
                       /\ mt = call["first"].maxTime

\* A fault of the generation that ends the search as if nothing was found.
FaultAsNotFound(cl, attempts) ==
    [cl EXCEPT !.attempts = attempts, !.faultAt = attempts, !.pc = "notfound"]

\* Keypair.generate() or ethers.Wallet.createRandom() throws: nothing in the
\* loop catches, so the exception leaves generateVanityAddress and rejects
\* the promise it returned; the facade awaits without catching.
Faulted(cl, attempts) ==
    [cl EXCEPT !.attempts = attempts, !.faultAt = attempts,
               !.pc = "threw", !.error = "GenerationError"]

(***************************************************************************)
(* VanityAddressGenerator (Base58).                                        *)
(***************************************************************************)
\* generateVanityAddress up to its loop: isRunning and startTime are fields of
\* the generator, shared by its calls.
SolStart(c, ma, mt) ==
    /\ Gen = "solana"
    /\ MayStart(c, ma, mt)
    /\ isRunning' = TRUE
    /\ startTime' = now
    /\ call' = [call EXCEPT ![c] = Begun(c, ma, mt)]
    /\ active' = c
    /\ UNCHANGED << wmVars, valVars, estVars, matchVars, multiVars >>
    /\ UNCHANGED << entry, criteria, now, shouldStop >>

\* while (this.isRunning && attempts < maxAttempts)
SolLoopCond(c) == isRunning /\ call[c].attempts < call[c].maxAttempts

\* The loop condition fails: isRunning = false; return null.
SolLoopExit(c) ==
    /\ Gen = "solana" /\ active = c /\ call[c].pc = "loop"
    /\ ~SolLoopCond(c)
    /\ isRunning' = FALSE
    /\ call' = [call EXCEPT ![c].pc = "notfound",
                             ![c].cause = IF ~isRunning THEN "Cancelled"
                                          ELSE "AttemptsExhausted",
                             ![c].over = (now - call[c].t0 > call[c].maxTime)]
    /\ active' = None
    /\ UNCHANGED << wmVars, valVars, estVars, matchVars, multiVars >>
    /\ UNCHANGED << entry, criteria, now, startTime, shouldStop >>

\* if (Date.now() - this.startTime > maxTime)
SolTimeExceeded(c) == now - startTime > call[c].maxTime

\* An iteration that ends at the time check: no keypair is generated.
SolTimeLimit(c) ==
    /\ Gen = "solana" /\ active = c /\ call[c].pc = "loop"
    /\ SolLoopCond(c)
    /\ SolTimeExceeded(c)
    /\ isRunning' = FALSE
    /\ call' = [call EXCEPT ![c].attempts = @ + 1, ![c].pc = "notfound",
                             ![c].cause = "TimeExhausted",
                             ![c].over = (now - call[c].t0 > call[c].maxTime)]
    /\ active' = None
    /\ UNCHANGED << wmVars, valVars, estVars, matchVars, multiVars >>
    /\ UNCHANGED << entry, criteria, now, startTime, shouldStop >>

\* The same test with only startsWith passed on to the matcher.
SolAcceptsPrefixOnly(publicKey, cr) ==
    SolMatchesCriteria(publicKey, [cr EXCEPT !.endsWith = << >>, !.contains = << >>])

\* if (this.matchesCriteria(publicKey, {startsWith, endsWith, contains, caseSensitive}))
SolAccepts(publicKey, cr) == SolMatchesCriteria(publicKey, cr)

\* if (attempts % 1000 === 0)
SolYields(attempts) == attempts % YieldEvery = 0

\* A result that carries the secret key of a keypair generated earlier.
SolFoundStaleKey(keypair, attempts, timeElapsed) ==
    [publicKey |-> keypair.publicKey,
     privateKey |-> << "sk" >> \o [i \in 1..AddrLen |-> "1"],
     attempts |-> attempts,
     timeElapsed |-> timeElapsed]

\* return {publicKey, privateKey: bs58.encode(keypair.secretKey), attempts,
\* timeElapsed}: the result is built from the keypair of this iteration.
SolFound(keypair, attempts, timeElapsed) ==
    [publicKey |-> keypair.publicKey,
     privateKey |-> keypair.secretKey,
     attempts |-> attempts,
     timeElapsed |-> timeElapsed]

\* An iteration that generates a keypair: a match returns the result; a miss
\* goes round, reporting progress and yielding at the cadence.
SolAttempt(c) ==
    /\ Gen = "solana" /\ active = c /\ call[c].pc = "loop"
    /\ SolLoopCond(c)
    /\ ~SolTimeExceeded(c)
    /\ \E keypair \in SolKeypairs :
         LET attempts == call[c].attempts + 1 IN
         IF SolAccepts(keypair.publicKey, criteria)
         THEN /\ now' = now
              /\ isRunning' = FALSE
                /\ call' = [call EXCEPT
                     ![c].attempts = attempts,
                     ![c].gens = @ + 1,
                     ![c].pc = "found",
                     ![c].result = SolFound(keypair, attempts, now - startTime)]
                /\ active' = None
         ELSE /\ now' = now
              /\ isRunning' = isRunning
              /\ IF SolYields(attempts)
                 THEN /\ call' = [call EXCEPT
                            ![c].attempts = attempts,
                            ![c].gens = @ + 1,
                            ![c].over = (now - call[c].t0 > call[c].maxTime),
                            ![c].lastProgress = attempts,
                            ![c].progressCount = @ + 1,
                            ![c].pc = "suspended"]
                      /\ active' = None
                 ELSE /\ call' = [call EXCEPT
                            ![c].attempts = attempts,
                            ![c].gens = @ + 1,
                            ![c].over = (now - call[c].t0 > call[c].maxTime)]
                      /\ active' = active
    /\ UNCHANGED << wmVars, valVars, estVars, matchVars, multiVars >>
    /\ UNCHANGED << entry, criteria, startTime, shouldStop >>

\* An iteration in which Keypair.generate() throws: isRunning is left as it
\* is.
SolFault(c) ==
    /\ Gen = "solana" /\ active = c /\ call[c].pc = "loop"
    /\ SolLoopCond(c)
    /\ ~SolTimeExceeded(c)
    /\ call' = [call EXCEPT ![c] = Faulted(call[c], call[c].attempts + 1)]
    /\ active' = None
    /\ UNCHANGED << wmVars, valVars, estVars, matchVars, multiVars >>
    /\ UNCHANGED << entry, criteria, now, isRunning, startTime, shouldStop >>

(***************************************************************************)
(* EVMVanityAddressGenerator (hex, in batches).                            *)
(***************************************************************************)
\* An entry that leaves the flag as an earlier stop() set it.
ShouldStopKept == shouldStop["evm"]

\* this.shouldStop = false, at the entry of generateVanityAddress.
ShouldStopAtEntry == FALSE

\* generateVanityAddress up to its loop: shouldStop is reset, then the
\* criteria are validated, then the clock is read.
EvmStart(c, ma, mt) ==
    /\ Gen = "evm"
    /\ MayStart(c, ma, mt)
    /\ shouldStop' = [shouldStop EXCEPT !["evm"] = ShouldStopAtEntry]
    /\ IF HexValidationError(criteria) # None
       THEN /\ call' = [call EXCEPT ![c].pc = "threw",
                                    ![c].maxAttempts = ma, ![c].maxTime = mt,
                                    ![c].t0 = now,
                                    ![c].error = HexValidationError(criteria)]
            /\ active' = None
       ELSE /\ call' = [call EXCEPT ![c] = Begun(c, ma, mt)]
            /\ active' = c
    /\ UNCHANGED << wmVars, valVars, estVars, matchVars, multiVars >>
    /\ UNCHANGED << entry, criteria, now, isRunning, startTime >>

\* while (attempts < maxAttempts && !this.shouldStop)
EvmLoopCond(c) == call[c].attempts < call[c].maxAttempts /\ ~shouldStop["evm"]

\* The loop condition fails: return null.
EvmLoopExit(c) ==
    /\ Gen = "evm" /\ active = c /\ call[c].pc = "loop"
    /\ ~EvmLoopCond(c)
    /\ call' = [call EXCEPT ![c].pc = "notfound",
                             ![c].cause = IF shouldStop["evm"] THEN "Cancelled"
                                          ELSE "AttemptsExhausted",
                             ![c].over = (now - call[c].t0 > call[c].maxTime)]
    /\ active' = None
    /\ UNCHANGED << wmVars, valVars, estVars, matchVars, multiVars >>
    /\ UNCHANGED << entry, criteria, now, isRunning, startTime, shouldStop >>

\* The loop condition holds: a batch begins, for (let i = 0; ...).
EvmBatchBegin(c) ==
    /\ Gen = "evm" /\ active = c /\ call[c].pc = "loop"
    /\ EvmLoopCond(c)
    /\ call' = [call EXCEPT ![c].pc = "batch", ![c].i = 0]
    /\ UNCHANGED << wmVars, valVars, estVars, matchVars, multiVars >>
    /\ UNCHANGED << entry, criteria, now, active, isRunning, startTime, shouldStop >>

\* if (this.matchesCriteria(address, {startsWith, endsWith, contains, caseSensitive}))
EvmAccepts(address, cr) == EvmMatchesCriteria(address, cr)

\* if (Date.now() - startTime > maxTime) break;
EvmTimeExceeded(c, t) == t - call[c].startTime > call[c].maxTime

\* The batch is over (i reached BATCH_SIZE, or the time check broke out of
\* the for loop): onProgress(attempts), then the await.
EvmBatchOver(c, i, t) == i >= BATCH_SIZE \/ EvmTimeExceeded(c, t)

\* One iteration of the for loop of a batch: a wallet is generated; a match
\* returns the result; a miss checks the time and ends or continues the batch.
EvmAttempt(c) ==
    /\ Gen = "evm" /\ active = c /\ call[c].pc = "batch"
    /\ call[c].i < BATCH_SIZE
    /\ \E wallet \in Wallets :
         LET attempts == call[c].attempts + 1
             t == now
         IN
         /\ now' = now
         /\ IF EvmAccepts(wallet.address, criteria)
            THEN /\ call' = [call EXCEPT
                       ![c].attempts = attempts,
                       ![c].gens = @ + 1,
                       ![c].pc = "found",
                       ![c].result = [address |-> wallet.address,
                                      privateKey |-> wallet.privateKey,
                                      publicKey |-> wallet.publicKey,
                                      attempts |-> attempts,
                                      timeElapsed |-> t - call[c].startTime]]
                 /\ active' = None
            ELSE IF EvmBatchOver(c, call[c].i + 1, t)
                 THEN /\ call' = [call EXCEPT
                            ![c].attempts = attempts,
                            ![c].gens = @ + 1,
                            ![c].i = @ + 1,
                            ![c].over = (t - call[c].t0 > call[c].maxTime),
                            ![c].lastProgress = attempts,
                            ![c].progressCount = @ + 1,
                            ![c].pc = "suspended"]
                      /\ active' = None
                 ELSE /\ call' = [call EXCEPT
                            ![c].attempts = attempts,
                            ![c].gens = @ + 1,
                            ![c].i = @ + 1,
                            ![c].over = (t - call[c].t0 > call[c].maxTime)]
                      /\ active' = active
    /\ UNCHANGED << wmVars, valVars, estVars, matchVars, multiVars >>
    /\ UNCHANGED << entry, criteria, isRunning, startTime, shouldStop >>

\* An iteration of a batch in which ethers.Wallet.createRandom() throws.
EvmFault(c) ==
    /\ Gen = "evm" /\ active = c /\ call[c].pc = "batch"
    /\ call[c].i < BATCH_SIZE
    /\ call' = [call EXCEPT ![c] = Faulted(call[c], call[c].attempts + 1)]
    /\ active' = None
    /\ UNCHANGED << wmVars, valVars, estVars, matchVars, multiVars >>
    /\ UNCHANGED << entry, criteria, now, isRunning, startTime, shouldStop >>

\* A yield whose promise is never resolved.
ResumeNever(c) == FALSE /\ call[c].pc = "suspended" /\ UNCHANGED vars

\* The setTimeout(resolve, 0) of a Base58 or EVM search fires: the search goes
\* back to its while condition.
Resume(c) ==
    /\ Gen \in {"solana", "evm"}
    /\ active = None
    /\ call[c].pc = "suspended"
    /\ call' = [call EXCEPT ![c].pc = "loop"]
    /\ active' = c
    /\ UNCHANGED << wmVars, valVars, estVars, matchVars, multiVars >>
    /\ UNCHANGED << entry, criteria, now, isRunning, startTime, shouldStop >>

(***************************************************************************)
(* EthereumVanityAddressGenerator (hex, one wallet at a time).             *)
(***************************************************************************)
\* generateVanityAddress up to its loop: shouldStop is reset and the clock
\* read, then the criteria are validated.
EthStart(c, ma, mt) ==
    /\ Gen = "ethereum"
    /\ MayStart(c, ma, mt)
    /\ shouldStop' = [shouldStop EXCEPT !["ethereum"] = FALSE]
    /\ IF HexValidationError(criteria) # None
       THEN /\ call' = [call EXCEPT ![c].pc = "threw",
                                    ![c].maxAttempts = ma, ![c].maxTime = mt,
                                    ![c].t0 = now,
                                    ![c].error = HexValidationError(criteria)]
            /\ active' = None
       ELSE /\ call' = [call EXCEPT ![c] = Begun(c, ma, mt)]
            /\ active' = c
    /\ UNCHANGED << wmVars, valVars, estVars, matchVars, multiVars >>
    /\ UNCHANGED << entry, criteria, now, isRunning, startTime >>

\* while (attempts < maxAttempts && !this.shouldStop)
EthLoopCond(c) == call[c].attempts < call[c].maxAttempts /\ ~shouldStop["ethereum"]

\* The loop condition fails: return null.
EthLoopExit(c) ==
    /\ Gen = "ethereum" /\ active = c /\ call[c].pc = "loop"
    /\ ~EthLoopCond(c)
    /\ call' = [call EXCEPT ![c].pc = "notfound",
                             ![c].cause = IF shouldStop["ethereum"] THEN "Cancelled"
                                          ELSE "AttemptsExhausted",
                             ![c].over = (now - call[c].t0 > call[c].maxTime)]
    /\ active' = None
    /\ UNCHANGED << wmVars, valVars, estVars, matchVars, multiVars >>
    /\ UNCHANGED << entry, criteria, now, isRunning, startTime, shouldStop >>

\* if (this.matchesCriteria(address, {startsWith, endsWith, contains, caseSensitive}))
EthAccepts(address, cr) == EthMatchesCriteria(address, cr)

\* if (attempts % 1000 === 0)
EthYields(attempts) == attempts % YieldEvery = 0

\* if (Date.now() - startTime > maxTime) break;
EthTimeExceeded(c, t) == t - call[c].startTime > call[c].maxTime

\* One iteration: a wallet is generated; a match returns the result; a miss
\* at the cadence reports progress and yields before the time check, any
\* other miss goes straight to the time check.
EthAttempt(c) ==
    /\ Gen = "ethereum" /\ active = c /\ call[c].pc = "loop"
    /\ EthLoopCond(c)
    /\ \E wallet \in Wallets :
         LET attempts == call[c].attempts + 1
             t == now
         IN
         /\ now' = now
         /\ IF EthAccepts(wallet.address, criteria)
            THEN /\ call' = [call EXCEPT
                       ![c].attempts = attempts,
                       ![c].gens = @ + 1,
                       ![c].pc = "found",
                       ![c].result = [address |-> wallet.address,
                                      privateKey |-> wallet.privateKey,
                                      publicKey |-> wallet.publicKey,
                                      attempts |-> attempts,
                                      timeElapsed |-> t - call[c].startTime]]
                 /\ active' = None
            ELSE IF EthYields(attempts)
                 THEN /\ call' = [call EXCEPT
                            ![c].attempts = attempts,
                            ![c].gens = @ + 1,
                            ![c].over = (t - call[c].t0 > call[c].maxTime),
                            ![c].lastProgress = attempts,
                            ![c].progressCount = @ + 1,
                            ![c].pc = "yielded"]
                      /\ active' = None
                 ELSE IF EthTimeExceeded(c, t)
                 THEN /\ call' = [call EXCEPT
                            ![c].attempts = attempts,
                            ![c].gens = @ + 1,
                            ![c].over = (t - call[c].t0 > call[c].maxTime),
                            ![c].cause = "TimeExhausted",
                            ![c].pc = "notfound"]
                      /\ active' = None
                 ELSE /\ call' = [call EXCEPT
                            ![c].attempts = attempts,
                            ![c].gens = @ + 1,
                            ![c].over = (t - call[c].t0 > call[c].maxTime)]
                      /\ active' = active
    /\ UNCHANGED << wmVars, valVars, estVars, matchVars, multiVars >>
    /\ UNCHANGED << entry, criteria, isRunning, startTime, shouldStop >>

\* An iteration in which ethers.Wallet.createRandom() throws.
EthFault(c) ==
    /\ Gen = "ethereum" /\ active = c /\ call[c].pc = "loop"
    /\ EthLoopCond(c)
    /\ call' = [call EXCEPT ![c] = Faulted(call[c], call[c].attempts + 1)]
    /\ active' = None
    /\ UNCHANGED << wmVars, valVars, estVars, matchVars, multiVars >>
    /\ UNCHANGED << entry, criteria, now, isRunning, startTime, shouldStop >>

\* The setTimeout(resolve, 0) of an Ethereum search fires: the search goes on
\* with the time check that follows its await.
EthResume(c) ==
    /\ Gen = "ethereum"
    /\ active = None
    /\ call[c].pc = "yielded"
    /\ IF EthTimeExceeded(c, now)
       THEN /\ call' = [call EXCEPT ![c].pc = "notfound",
                                    ![c].cause = "TimeExhausted",
                                    ![c].over = (now - call[c].t0 > call[c].maxTime)]
            /\ active' = None
       ELSE /\ call' = [call EXCEPT ![c].pc = "loop"]
            /\ active' = c
    /\ UNCHANGED << wmVars, valVars, estVars, matchVars, multiVars >>
    /\ UNCHANGED << entry, criteria, now, isRunning, startTime, shouldStop >>

(***************************************************************************)
(* stop(), and the facade.                                                 *)
(***************************************************************************)
Suspended(c) == call[c].pc \in {"suspended", "yielded"}

\* A stop() that turns every flag over.
AfterStopToggled(running, stopping) ==
    [isRunning |-> ~running,
     shouldStop |-> [g \in {"evm", "ethereum"} |-> ~stopping[g]]]

\* The stop() of the way of entry: VanityAddressGenerator.stop() clears
\* isRunning, the hex generators' stop() sets shouldStop, and the facade's
\* stop() calls both of its generators'.
AfterStop(running, stopping) ==
    [isRunning |-> IF Gen = "solana" \/ ViaFacade(entry) THEN FALSE ELSE running,
     shouldStop |->
         [g \in {"evm", "ethereum"} |->
            IF (g = Gen) \/ (g = "evm" /\ ViaFacade(entry)) THEN TRUE ELSE stopping[g]]]

StopFlags ==
    /\ isRunning' = AfterStop(isRunning, shouldStop).isRunning
    /\ shouldStop' = AfterStop(isRunning, shouldStop).shouldStop

\* stop() is called, between two callbacks.
Stop ==
    /\ active = None
    /\ StopFlags
    /\ call' = [c \in Calls |->
                  IF Suspended(c) /\ call[c].stopGens = -1
                  THEN [call[c] EXCEPT !.stopGens = call[c].gens]
                  ELSE call[c]]
    /\ UNCHANGED << wmVars, valVars, estVars, matchVars, multiVars >>
    /\ UNCHANGED << entry, criteria, now, active, startTime >>

\* A facade that counts one attempt of its own and hands back the public key
\* as the address of either type.
UnifiedResultRecounted(addressType, result) ==
    IF result = Null THEN Null
    ELSE [addressType |-> addressType, address |-> result.publicKey,
          privateKey |-> result.privateKey, publicKey |-> result.publicKey,
          attempts |-> result.attempts + 1, timeElapsed |-> result.timeElapsed]

\* UnifiedVanityAddressGenerator.generateVanityAddress: the result of the
\* routed generator, renamed.
UnifiedResult(addressType, result) ==
    IF result = Null THEN Null
    ELSE IF addressType = "solana"
    THEN [addressType |-> "solana", address |-> result.publicKey,
          privateKey |-> result.privateKey, publicKey |-> result.publicKey,
          attempts |-> result.attempts, timeElapsed |-> result.timeElapsed]
    ELSE [addressType |-> "evm", address |-> result.address,
          privateKey |-> result.privateKey, publicKey |-> result.publicKey,
          attempts |-> result.attempts, timeElapsed |-> result.timeElapsed]

\* What the caller of call c receives once the call is over.
Returned(c) ==
    IF ViaFacade(entry) THEN UnifiedResult(Gen, call[c].result) ELSE call[c].result

\* The address of a returned result.
ReturnedAddress(c) ==
    IF entry = "solana" THEN Returned(c).publicKey ELSE Returned(c).address

GenNext ==
    \/ Tick
    \/ Stop
    \/ \E c \in Calls, ma \in MaxAttemptsSet, mt \in MaxTimeSet :
         \/ SolStart(c, ma, mt)
         \/ EvmStart(c, ma, mt)
         \/ EthStart(c, ma, mt)
    \/ \E c \in Calls :
         \/ SolLoopExit(c)
         \/ SolTimeLimit(c)
         \/ SolAttempt(c)
         \/ SolFault(c)
         \/ EvmLoopExit(c)
         \/ EvmBatchBegin(c)
         \/ EvmAttempt(c)
         \/ EvmFault(c)
         \/ Resume(c)
         \/ EthLoopExit(c)
         \/ EthAttempt(c)
         \/ EthFault(c)
         \/ EthResume(c)

(***************************************************************************)
(* EVMWorkerManager.  A Worker is named after the call that constructed    *)
(* it.  The worker script is not part of the manager: it may post any      *)
(* message of the shape EVMWorkerMessage, or fail, while it is not         *)
(* terminated; a terminated worker delivers nothing.                       *)
(***************************************************************************)
MCalls == {"m1", "m2", "m3"}

\* The calls of a run are made in this order.
MPrevious(m) ==
    CASE m = "m1" -> {}
      [] m = "m2" -> {"m1"}
      [] OTHER -> {"m1", "m2"}

\* interface EVMWorkerMessage: success, and whether result, progress, error
\* and reason are present (truthy).
WorkerMessages ==
    [success : BOOLEAN, result : BOOLEAN, progress : BOOLEAN,
     error : BOOLEAN, reason : BOOLEAN]

NoPromise == [state |-> "none", value |-> None]

WmInit ==
    /\ worker = None
    /\ wmIsRunning = FALSE
    /\ created = {}
    /\ terminated = {}
    /\ promise = [m \in MCalls |-> NoPromise]
    /\ progressed = [m \in MCalls |-> 0]
    /\ stopHit = {}
    /\ wmOp = "none"

\* resolve(v) or reject(v) on the promise of call m: a settled promise stays
\* as it is.
Settle(m, st, v) ==
    IF promise[m].state = "pending"
    THEN [promise EXCEPT ![m] = [state |-> st, value |-> v]]
    ELSE promise

\* cleanup that drops the reference without terminate().
cleanupNoTerminate(wk, term) == [worker |-> None, terminated |-> term]

\* EVMWorkerManager.cleanup: the worker and the terminated Workers after it.
cleanup(wk, term) ==
    IF wk # None
    THEN [worker |-> None, terminated |-> term \cup {wk}]
    ELSE [worker |-> wk, terminated |-> term]

\* A manager that never takes itself for busy.
BusyNever == FALSE

\* if (this.isRunning) of generateVanityAddress
Busy == wmIsRunning

\* generateVanityAddress, the executor of the promise it returns: rejected
\* when a search is running, otherwise a Worker is constructed, its handlers
\* set and the options posted to it.
WmGenerate(m) ==
    /\ promise[m].state = "none"
    /\ \A p \in MPrevious(m) : promise[p].state # "none"
    /\ IF Busy
       THEN /\ promise' = [promise EXCEPT
                  ![m] = [state |-> "rejected", value |-> "Generation already in progress"]]
            /\ UNCHANGED << worker, wmIsRunning, created >>
       ELSE /\ wmIsRunning' = TRUE
            /\ worker' = m
            /\ created' = created \cup {m}
            /\ promise' = [promise EXCEPT ![m] = [state |-> "pending", value |-> None]]
    /\ wmOp' = "generate"
    /\ UNCHANGED << terminated, progressed, stopHit >>
    /\ UNCHANGED << genVars, valVars, estVars, matchVars, multiVars >>

\* A Worker that can still deliver an event to its handlers.
Alive(w) == w \in created /\ w \notin terminated

\* The branch worker.onmessage takes on a message.
OnMessageBranch(msg) ==
    IF msg.error THEN "error"
    ELSE IF msg.success /\ msg.result THEN "result"
    ELSE IF ~msg.success /\ msg.reason THEN "reason"
    ELSE "none"

\* if (progress && onProgress): reached when neither of the first two branches
\* returned.
CallsOnProgress(msg) == OnMessageBranch(msg) \in {"reason", "none"} /\ msg.progress

\* worker.onmessage of the Worker of call m, on a message the worker posted.
OnMessage(m, msg) ==
    /\ Alive(m)
    /\ CallsOnProgress(msg) => progressed[m] < MaxProgress
    /\ progressed' = IF CallsOnProgress(msg)
                     THEN [progressed EXCEPT ![m] = @ + 1]
                     ELSE progressed
    /\ IF OnMessageBranch(msg) = "none"
       THEN UNCHANGED << worker, terminated, wmIsRunning, promise >>
       ELSE /\ worker' = cleanup(worker, terminated).worker
            /\ terminated' = cleanup(worker, terminated).terminated
            /\ wmIsRunning' = FALSE
            /\ promise' =
                 CASE OnMessageBranch(msg) = "error" ->
                        Settle(m, "rejected", "Error(error)")
                   [] OnMessageBranch(msg) = "result" ->
                        Settle(m, "resolved", "result")
                   [] OTHER -> Settle(m, "resolved", "null")
    /\ wmOp' = "message"
    /\ UNCHANGED << created, stopHit >>
    /\ UNCHANGED << genVars, valVars, estVars, matchVars, multiVars >>

\* An onerror that delivers what a not-found message delivers.
OnErrorAsNotFound == [state |-> "resolved", value |-> "null"]

\* reject(error) of worker.onerror: the promise is rejected with the
\* ErrorEvent the handler was given.
OnErrorOutcome == [state |-> "rejected", value |-> "ErrorEvent"]

\* worker.onerror of the Worker of call m.
OnError(m) ==
    /\ Alive(m)
    /\ worker' = cleanup(worker, terminated).worker
    /\ terminated' = cleanup(worker, terminated).terminated
    /\ wmIsRunning' = FALSE
    /\ promise' = Settle(m, OnErrorOutcome.state, OnErrorOutcome.value)
    /\ wmOp' = "error"
    /\ UNCHANGED << created, progressed, stopHit >>
    /\ UNCHANGED << genVars, valVars, estVars, matchVars, multiVars >>

\* A stop() that never finds a worker.
WorkerSetNever == FALSE

\* if (this.worker) of stop
WorkerSet == worker # None

\* EVMWorkerManager.stop
WmStop ==
    /\ IF WorkerSet
       THEN /\ worker' = cleanup(worker, terminated \cup {worker}).worker
            /\ terminated' = cleanup(worker, terminated \cup {worker}).terminated
            /\ wmIsRunning' = FALSE
       ELSE UNCHANGED << worker, terminated, wmIsRunning >>
    /\ stopHit' = stopHit \cup {m \in MCalls : promise[m].state = "pending"}
    /\ wmOp' = "stop"
    /\ UNCHANGED << created, promise, progressed >>
    /\ UNCHANGED << genVars, valVars, estVars, matchVars, multiVars >>

WmNext ==
    \/ WmStop
    \/ \E m \in MCalls :
         \/ WmGenerate(m)
         \/ OnError(m)
         \/ \E msg \in WorkerMessages : OnMessage(m, msg)

(***************************************************************************)
(* The operations of the facade, called with an address type and the       *)
(* criteria of a bounded set: validateCriteria, and the dispatch of the    *)
(* others on the address type.                                             *)
(***************************************************************************)
RECURSIVE SeqsUpTo(_, _)
SeqsUpTo(S, n) == IF n = 0 THEN {<< >>} ELSE SeqsOfLen(S, n) \cup SeqsUpTo(S, n - 1)

\* "a" is in both alphabets, "g" in Base58 only, "0" in hex only, "-" in none.
PatChars == {"a", "g", "0", "-"}

Patterns == SeqsUpTo(PatChars, MaxPatLen)

\* The address types validateCriteria is given: the two it knows and another.
AddressTypes == {"solana", "evm", "bitcoin"}

\* No operation of the facade has been called.
NotCalled ==
    [called |-> FALSE, op |-> None, routed |-> None, error |-> None, issues |-> << >>]

ValInit ==
    /\ vType \in AddressTypes
    /\ vCriteria \in [startsWith : Patterns, endsWith : Patterns,
                      contains : Patterns, caseSensitive : {FALSE}]
    /\ vIssues = NotCalled

\* validateCriteria calls no generator and has no throw statement.
Validate ==
    /\ ~vIssues.called
    /\ vIssues' = [called |-> TRUE, op |-> "validateCriteria", routed |-> None,
                   error |-> None, issues |-> validateCriteria(vType, vCriteria)]
    /\ UNCHANGED << vType, vCriteria >>
    /\ UNCHANGED << genVars, wmVars, estVars, matchVars, multiVars >>

\* The operations of the facade that hand the request on to a generator.
RoutedOps ==
    {"generateVanityAddress", "estimateProbability", "estimateExpectedAttempts",
     "estimateExpectedTime"}

\* if (addressType === "solana") ... else if (addressType === "evm") ...: the
\* generator whose method is called, None when neither branch is taken.
FacadeRoute(addressType) ==
    IF addressType = "solana" THEN "solana"
    ELSE IF addressType = "evm" THEN "evm"
    ELSE None

\* throw new Error(`Unsupported address type: ${addressType}`)
UnsupportedError == "Unsupported address type"

\* generateVanityAddress or one of the three estimators of the facade is
\* called: the method of the same name of the routed generator is called, or
\* the error is thrown when neither branch is taken.
FacadeCall(op) ==
    /\ ~vIssues.called
    /\ vIssues' = [called |-> TRUE, op |-> op, routed |-> FacadeRoute(vType),
                   error |-> IF FacadeRoute(vType) = None THEN UnsupportedError
                             ELSE None,
                   issues |-> << >>]
    /\ UNCHANGED << vType, vCriteria >>
    /\ UNCHANGED << genVars, wmVars, estVars, matchVars, multiVars >>

ValNext ==
    \/ Validate
    \/ \E op \in RoutedOps : FacadeCall(op)

(***************************************************************************)
(* The estimators, applied to the criteria of a bounded set, and again to  *)
(* the criteria with one constraint a character longer.                    *)
(***************************************************************************)
NotEstimated ==
    [called |-> FALSE, probability |-> Zero, expectedAttempts |-> Zero,
     expectedTime |-> Zero]

NoPrevious ==
    [set |-> FALSE, grown |-> "none", expectedAttempts |-> Zero]

EstInit ==
    /\ \E in \in EstInputs : eEntry = in[1] /\ eCriteria = in[2]
    /\ eResult = NotEstimated
    /\ ePrev = NoPrevious

\* estimateProbability, estimateExpectedAttempts and estimateExpectedTime are
\* called with the criteria.
Estimate ==
    /\ ~eResult.called
    /\ eResult' = Estimates(eEntry, eCriteria)
    /\ UNCHANGED << eEntry, eCriteria, ePrev >>
    /\ UNCHANGED << genVars, wmVars, valVars, matchVars, multiVars >>

Constraints == {"startsWith", "endsWith", "contains"}

\* A constraint may grow up to MaxEstLen characters, and a substring as long
\* as the address by two more.
MayGrow(which, pattern) ==
    \/ Len(pattern) < MaxEstLen
    \/ which = "contains" /\ Len(pattern) \in {addressLength, addressLength + 1}

\* One constraint of the criteria is made a character longer, the others
\* kept, and the estimators are called again.
Lengthen(which) ==
    /\ eResult.called
    /\ MayGrow(which, eCriteria[which])
    /\ eCriteria' = [eCriteria EXCEPT ![which] = Pattern(Len(@) + 1)]
    /\ ePrev' = [set |-> TRUE, grown |-> which,
                 expectedAttempts |-> eResult.expectedAttempts]
    /\ eResult' = Estimates(eEntry, eCriteria')
    /\ UNCHANGED eEntry
    /\ UNCHANGED << genVars, wmVars, valVars, matchVars, multiVars >>

EstNext ==
    \/ Estimate
    \/ \E which \in Constraints : Lengthen(which)

(***************************************************************************)
(* The matchers, applied as an iteration of the search applies them: to a  *)
(* generated address and the criteria of the call.  The patterns have up   *)
(* to AddrLen characters, or one more than the body of an address has.     *)
(***************************************************************************)
\* "A" occurs in the generated addresses, "a" only when case is ignored.
MatchChars == {"A", "a"}

MatchPatterns == SeqsUpTo(MatchChars, AddrLen) \cup SeqsOfLen({"A"}, AddrLen + 1)

MatchCriteria ==
    [startsWith : MatchPatterns, endsWith : MatchPatterns,
     contains : MatchPatterns, caseSensitive : BOOLEAN]

\* The addresses the generator of a class produces.
GeneratedAddresses(g) ==
    IF g = "solana" THEN {keypair.publicKey : keypair \in SolKeypairs}
    ELSE {wallet.address : wallet \in Wallets}

NotMatched == [called |-> FALSE, matched |-> FALSE, address |-> << >>]

MatchInit ==
    /\ matchGen \in {"solana", "evm", "ethereum"}
    /\ matchAddress \in GeneratedAddresses(matchGen)
    /\ matchCriteria \in MatchCriteria
    /\ matchResult = NotMatched

\* if (this.matchesCriteria(...)) of the generator of class g
Accepts(g, address, cr) ==
    CASE g = "solana" -> SolAccepts(address, cr)
      [] g = "evm" -> EvmAccepts(address, cr)
      [] OTHER -> EthAccepts(address, cr)

\* The test of an iteration: when the matcher accepts, the result returned
\* holds the string that was generated (publicKey, or address).
Match ==
    /\ ~matchResult.called
    /\ matchResult' =
         [called |-> TRUE,
          matched |-> Accepts(matchGen, matchAddress, matchCriteria),
          address |-> IF Accepts(matchGen, matchAddress, matchCriteria)
                      THEN matchAddress ELSE << >>]
    /\ UNCHANGED << matchGen, matchAddress, matchCriteria >>
    /\ UNCHANGED << genVars, wmVars, valVars, estVars, multiVars >>

MatchNext == Match

(***************************************************************************)
(* VanityAddressGenerator.generateMultipleVanityAddresses.  Its searches   *)
(* are those of the generator, run in the first call of the instance.      *)
(***************************************************************************)
\* The counts a batch is asked for.
Counts == 0..MaxCount

\* generateMultipleVanityAddresses not called.
NotBatched == [pc |-> "idle", count |-> 0, i |-> 0, results |-> << >>]

MultiInit == multi = NotBatched

\* The for loop goes on after a search that found nothing.
AfterSearchSkipping(m, result) ==
    [m EXCEPT !.results = IF result # Null THEN Append(@, result) ELSE @,
              !.i = @ + 1,
              !.pc = IF m.i + 1 < m.count THEN "awaiting" ELSE "done"]

\* The body of the for loop after the await, and the i++ and test that
\* follow: a result is pushed, null breaks.
AfterSearch(m, result) ==
    IF result # Null
    THEN [m EXCEPT !.results = Append(@, result),
                   !.i = @ + 1,
                   !.pc = IF m.i + 1 < m.count THEN "awaiting" ELSE "done"]
    ELSE [m EXCEPT !.pc = "done"]

\* await this.generateVanityAddress(options): the call runs up to its loop.
MultiSearch(ma, mt) ==
    /\ isRunning' = TRUE
    /\ startTime' = now
    /\ call' = [call EXCEPT !["first"] =
                  [IdleCall EXCEPT !.pc = "loop", !.maxAttempts = ma, !.maxTime = mt,
                                   !.startTime = now, !.t0 = now]]
    /\ active' = "first"
    /\ UNCHANGED << entry, criteria, now, shouldStop >>

\* generateMultipleVanityAddresses(count, options) is called: with no search
\* to make it returns the empty list.
MultiCall(count, ma, mt) ==
    /\ active = None
    /\ multi.pc = "idle"
    /\ IF 0 < count
       THEN /\ multi' = [multi EXCEPT !.pc = "awaiting", !.count = count]
            /\ MultiSearch(ma, mt)
       ELSE /\ multi' = [multi EXCEPT !.pc = "done", !.count = count]
            /\ UNCHANGED genVars
    /\ UNCHANGED << wmVars, valVars, estVars, matchVars >>

\* The awaited search is over: its exception leaves the batch, its result is
\* pushed and the next search begun, null ends the batch.
MultiContinue ==
    /\ active = None
    /\ multi.pc = "awaiting"
    /\ call["first"].pc \in {"found", "notfound", "threw"}
    /\ IF call["first"].pc = "threw"
       THEN /\ multi' = [multi EXCEPT !.pc = "threw"]
            /\ UNCHANGED genVars
       ELSE /\ multi' = AfterSearch(multi, call["first"].result)
            /\ IF AfterSearch(multi, call["first"].result).pc = "awaiting"
               THEN MultiSearch(call["first"].maxAttempts, call["first"].maxTime)
               ELSE UNCHANGED genVars
    /\ UNCHANGED << wmVars, valVars, estVars, matchVars >>

MultiNext ==
    \/ Tick
    \/ Stop
    \/ \E count \in Counts, ma \in MaxAttemptsSet, mt \in MaxTimeSet :
         MultiCall(count, ma, mt)
    \/ MultiContinue
    \/ SolLoopExit("first")
    \/ SolTimeLimit("first")
    \/ SolAttempt("first")
    \/ SolFault("first")
    \/ Resume("first")

(***************************************************************************)
(* Specifications.                                                         *)
(***************************************************************************)
\* The parts of the state a specification leaves alone.
GenAtRest ==
    /\ entry = "evm"
    /\ criteria = Criteria(<< "a" >>, << >>, << >>, FALSE)
    /\ now = 0
    /\ active = None
    /\ isRunning = FALSE
    /\ startTime = 0
    /\ shouldStop = [g \in {"evm", "ethereum"} |-> FALSE]
    /\ call = [c \in Calls |-> IdleCall]

ValAtRest ==
    /\ vType = "evm"
    /\ vCriteria = Criteria(<< "a" >>, << >>, << >>, FALSE)
    /\ vIssues = NotCalled

EstAtRest ==
    /\ eEntry = "evm"
    /\ eCriteria = Criteria(<< "a" >>, << >>, << >>, FALSE)
    /\ eResult = NotEstimated
    /\ ePrev = NoPrevious

MatchAtRest ==
    /\ matchGen = "evm"
    /\ matchAddress = << "0", "x" >>
    /\ matchCriteria = Criteria(<< "a" >>, << >>, << >>, FALSE)
    /\ matchResult = NotMatched

MultiAtRest == multi = NotBatched

\* The in-process searches.
Init == GenInit /\ WmInit /\ ValAtRest /\ EstAtRest /\ MatchAtRest /\ MultiAtRest

Spec == Init /\ [][GenNext]_vars

\* The steps of search c: its loop while it runs, and the timer of its yield.
SearchStep(c) ==
    \/ SolLoopExit(c) \/ SolTimeLimit(c) \/ SolAttempt(c) \/ SolFault(c)
    \/ EvmLoopExit(c) \/ EvmBatchBegin(c) \/ EvmAttempt(c) \/ EvmFault(c)
    \/ Resume(c)
    \/ EthLoopExit(c) \/ EthAttempt(c) \/ EthFault(c) \/ EthResume(c)

\* The in-process searches, with a search that runs going on to its next
\* await or return, and the timer of a yield firing; the clock, stop() and
\* the calls come as they may.
FairSpec == Init /\ [][GenNext]_vars /\ \A c \in Calls : WF_vars(SearchStep(c))

\* The worker manager.
WmSpecInit == GenAtRest /\ WmInit /\ ValAtRest /\ EstAtRest /\ MatchAtRest /\ MultiAtRest

WmSpec == WmSpecInit /\ [][WmNext]_vars

\* The worker manager, with the event loop running every handler whose event
\* has come and every call that is made.
WmFairSpec == WmSpecInit /\ [][WmNext]_vars /\ WF_vars(WmNext)

\* The operations of the facade.
ValSpecInit == GenAtRest /\ WmInit /\ ValInit /\ EstAtRest /\ MatchAtRest /\ MultiAtRest

ValSpec == ValSpecInit /\ [][ValNext]_vars

\* The estimators.
EstSpecInit == GenAtRest /\ WmInit /\ ValAtRest /\ EstInit /\ MatchAtRest /\ MultiAtRest

EstSpec == EstSpecInit /\ [][EstNext]_vars

\* The matchers.
MatchSpecInit == GenAtRest /\ WmInit /\ ValAtRest /\ EstAtRest /\ MatchInit /\ MultiAtRest

MatchSpec == MatchSpecInit /\ [][MatchNext]_vars

\* The batches of the Base58 generator.
MultiSpecInit ==
    /\ GenInit /\ entry = "solana"
    /\ WmInit /\ ValAtRest /\ EstAtRest /\ MatchAtRest /\ MultiInit

MultiSpec == MultiSpecInit /\ [][MultiNext]_vars

(***************************************************************************)
(* Properties.                                                             *)
(***************************************************************************)
\* The matcher of a generator class.
MatcherOf(g, address, cr) ==
    CASE g = "solana" -> SolMatchesCriteria(address, cr)
      [] g = "evm" -> EvmMatchesCriteria(address, cr)
      [] OTHER -> EthMatchesCriteria(address, cr)

\* The alphabet of the addresses of a generator class or address type.
TargetAlphabet(g) == IF g = "solana" THEN Base58Alphabet ELSE HexAlphabet

OutsideAlphabet(s, A) == \E i \in 1..Len(s) : s[i] \notin A

\* Some constraint has a character outside the target alphabet.
HasOutsideChar(g, cr) ==
    \/ OutsideAlphabet(cr.startsWith, TargetAlphabet(g))
    \/ OutsideAlphabet(cr.endsWith, TargetAlphabet(g))
    \/ OutsideAlphabet(cr.contains, TargetAlphabet(g))

\* No constraint is given.
NoConstraint(cr) ==
    ~Truthy(cr.startsWith) /\ ~Truthy(cr.endsWith) /\ ~Truthy(cr.contains)

\* C1: every Found result, of the three generators and of the facade, carries
\* an address that the matcher of the generator that ran accepts under the
\* criteria of the search.
C1_FoundMatches ==
    \A c \in Calls :
        call[c].pc = "found" => MatcherOf(Gen, ReturnedAddress(c), criteria)

\* A search through the facade has returned a result for criteria with a
\* suffix and a substring, and a direct one could have too.
C1_Witness ==
    \E c \in Calls :
        /\ call[c].pc = "found"
        /\ ViaFacade(entry)
        /\ Truthy(criteria.endsWith) /\ Truthy(criteria.contains)
        /\ call[c].attempts > 1

\* C2: a search never generates more keypairs than maxAttempts, and one that
\* ends without a match, without stop() and within its time budget has
\* generated exactly maxAttempts keypairs.
C2_ExactlyMaxAttempts ==
    \A c \in Calls :
        /\ call[c].gens <= call[c].maxAttempts
        /\ (call[c].pc = "notfound" /\ call[c].stopGens = -1 /\ ~call[c].over)
             => call[c].gens = call[c].maxAttempts

\* C3: once a miss has completed with the elapsed time over maxTime, the
\* search generates no further keypair.  (The claim says "at least maxTime";
\* this is its consequence for "more than maxTime".)
C3_NoGenerationAfterTimeout ==
    [][\A c \in Calls : call[c].over => call'[c].gens = call[c].gens]_vars

\* C4: after a stop() that came while the search was suspended, the search
\* generates at most one further keypair.
C4_StopHonoured ==
    \A c \in Calls :
        call[c].stopGens >= 0 => call[c].gens <= call[c].stopGens + 1

\* C5: a search whose criteria have a character outside the target alphabet
\* generates no keypair, reports no progress and returns neither a result nor
\* not-found: it fails.
C5_InvalidRejected ==
    HasOutsideChar(Gen, criteria) =>
        \A c \in Calls :
            /\ call[c].gens = 0
            /\ call[c].progressCount = 0
            /\ call[c].pc \notin {"found", "notfound"}

\* C6: validateCriteria returns a non-empty list whenever a constraint has a
\* character outside the alphabet of the address type.
C6_ValidateFlagsOutsideChars ==
    (/\ vIssues.called /\ vIssues.op = "validateCriteria"
     /\ vType \in {"solana", "evm"} /\ HasOutsideChar(vType, vCriteria))
        => Len(vIssues.issues) > 0

\* C7: a search given no constraint generates no keypair and never returns a
\* result.
C7_NoConstraintRejected ==
    NoConstraint(criteria) =>
        \A c \in Calls : call[c].gens = 0 /\ call[c].pc # "found"

\* C8: a generateVanityAddress call made while the manager is running is
\* rejected as busy and changes nothing else: the worker, isRunning, the
\* Workers constructed and terminated, the other promises and the progress
\* made stay as they are, and the running search keeps its live worker and
\* its pending promise.
C8_BusyRejected ==
    [][\A m \in MCalls :
         (promise[m].state = "none" /\ promise'[m].state # "none" /\ wmIsRunning)
           => /\ promise'[m] = [state |-> "rejected",
                                value |-> "Generation already in progress"]
              /\ worker' = worker /\ wmIsRunning'
              /\ created' = created /\ terminated' = terminated
              /\ progressed' = progressed
              /\ \A p \in MCalls \ {m} : promise'[p] = promise[p]
              /\ worker # None /\ worker \notin terminated'
              /\ promise'[worker].state = "pending"]_vars

\* A call has been rejected as busy while another search is running.
C8_Witness ==
    \E m \in MCalls :
        /\ promise[m].value = "Generation already in progress"
        /\ wmIsRunning
        /\ worker # None /\ promise[worker].state = "pending"

\* A call of the manager has received its outcome from its worker's handlers.
Delivered(m) == m \in created /\ promise[m].state \in {"resolved", "rejected"}

\* C9: a call that has received its outcome has its worker terminated and no
\* longer referenced, and the delivery itself leaves worker null and
\* isRunning false; the worker the manager references belongs to a pending
\* call.
C9_TornDownAfterDelivery ==
    /\ [](\A m \in MCalls : Delivered(m) => m \in terminated /\ worker # m)
    /\ [](worker # None => promise[worker].state = "pending")
    /\ [][\A m \in MCalls :
            (promise[m].state = "pending" /\ promise'[m].state # "pending")
              => worker' = None /\ ~wmIsRunning' /\ m \in terminated']_vars

\* A result, a not-found and a worker failure have each been delivered.
C9_Witness ==
    /\ \E m \in MCalls : promise[m].value = "ErrorEvent"
    /\ \E m \in MCalls : promise[m].value = "result"
    /\ \E m \in MCalls : promise[m].value = "null"
    /\ worker = None

\* C10: a call that was pending when stop() was called is eventually settled.
C10_StopSettles ==
    \A m \in MCalls :
        [](m \in stopHit => <>(promise[m].state \in {"resolved", "rejected"}))

\* What a stop() may not touch when it has nothing to do.
StopLeaves == << worker, wmIsRunning, created, terminated, promise, progressed >>

\* C11: every stop() of the manager leaves worker null and isRunning false;
\* one made when nothing is running, or right after another stop(), changes
\* neither the worker nor isRunning nor anything else of the manager.
C11_StopIdempotent ==
    [][wmOp' = "stop" =>
         /\ worker' = None /\ ~wmIsRunning'
         /\ ~wmIsRunning => UNCHANGED StopLeaves
         /\ wmOp = "stop" => UNCHANGED StopLeaves]_vars

\* stop() has terminated the worker of a pending search.
C11_Witness ==
    /\ wmOp = "stop"
    /\ worker = None /\ ~wmIsRunning
    /\ \E m \in stopHit : m \in terminated

Settled(m) == promise[m].state \in {"resolved", "rejected"}

\* C12: the outcome of a call, once delivered, is never replaced, no
\* onProgress call is made for the call after it, and every call that is
\* pending receives an outcome.
C12_ExactlyOneOutcome ==
    /\ [][\A m \in MCalls :
            Settled(m) => /\ promise'[m] = promise[m]
                          /\ progressed'[m] = progressed[m]]_vars
    /\ \A m \in MCalls : [](promise[m].state = "pending" => <>Settled(m))

\* What the messages of the worker and a busy manager deliver.
OtherOutcomes ==
    { [state |-> "rejected", value |-> "Error(error)"],
      [state |-> "rejected", value |-> "Generation already in progress"],
      [state |-> "resolved", value |-> "result"],
      [state |-> "resolved", value |-> "null"] }

\* C13: worker.onerror ends the pending call with a rejection that is none
\* of the outcomes a message delivers (the Error of an error message, a
\* result, null), and no message delivers the outcome of onerror.
C13_CrashDistinct ==
    [][\A m \in MCalls :
         promise'[m] # promise[m] =>
            /\ wmOp' = "error" => /\ promise'[m].state = "rejected"
                                   /\ promise'[m] \notin OtherOutcomes
            /\ wmOp' # "error" => promise'[m] \in OtherOutcomes \cup {[state |-> "pending", value |-> None]}]_vars

\* A worker failure, a generation error reported in a message and a
\* not-found have each been delivered.
C13_Witness ==
    /\ \E m \in MCalls : promise[m] = [state |-> "rejected", value |-> "ErrorEvent"]
    /\ \E m \in MCalls : promise[m] = [state |-> "rejected", value |-> "Error(error)"]
    /\ \E m \in MCalls : promise[m] = [state |-> "resolved", value |-> "null"]
    /\ wmOp = "error"

\* The reason a search that ended without a match could be told to have
\* ended for, read off what its caller received: null carries none.
ReasonIn(outcome) == IF outcome = Null THEN "none" ELSE outcome.reason

\* C14: a search that ended without a match delivers the reason it ended for,
\* so two searches that ended for different reasons deliver different
\* outcomes.
C14_ReasonDelivered ==
    \A c \in Calls :
        call[c].pc = "notfound" => ReasonIn(Returned(c)) = call[c].cause

\* C15: once the generation of a keypair has thrown at attempt k, the search
\* is over with an error, never with not-found, and nothing of the call
\* changes any more: no further attempt, no further progress.
C15_FaultAborts ==
    /\ [](\A c \in Calls :
            call[c].faultAt > 0 => /\ call[c].pc = "threw"
                                   /\ call[c].error = "GenerationError"
                                   /\ call[c].attempts = call[c].faultAt
                                   /\ call[c].gens = call[c].faultAt - 1)
    /\ [][\A c \in Calls : call[c].faultAt > 0 => call'[c] = call[c]]_vars

\* The generation has thrown after a progress report, in a search made
\* through the facade, and the other search of the run went on after it.
C15_Witness ==
    \E c, d \in Calls :
        /\ call[c].faultAt > 1 /\ call[c].progressCount > 0
        /\ ViaFacade(entry)
        /\ d # c /\ call[d].pc = "found"

\* The address type validateCriteria is asked about for a way of entry.
AddressTypeOf(e) == IF GenOf(e) = "solana" THEN "solana" ELSE "evm"

\* x <= y
DLeq(x, y) == ~DLess(y, x)

\* C16: for criteria validateCriteria accepts, the estimated probability is
\* at least 0 and at most 1.
C16_ProbabilityInUnitInterval ==
    (eResult.called /\ validateCriteria(AddressTypeOf(eEntry), eCriteria) = << >>)
        => DLeq(Zero, eResult.probability) /\ DLeq(eResult.probability, One)

\* C17: when one constraint is made a character longer and the others are
\* kept, the expected attempts do not go down, Infinity being the largest.
C17_AttemptsMonotone ==
    ePrev.set => DLeq(ePrev.expectedAttempts, eResult.expectedAttempts)

\* a^n, for numbers that fit
RECURSIVE IntPow(_, _)
IntPow(a, n) == IF n = 0 THEN 1 ELSE a * IntPow(a, n - 1)

Min(a, b) == IF a <= b THEN a ELSE b

CeilDiv(a, b) == (a + b - 1) \div b

\* ceil(A^L) for a case-sensitive constraint, ceil(A^L / min(2^L, A)) otherwise
ExactAttempts(A, L, caseSensitive) ==
    IF caseSensitive THEN IntPow(A, L)
    ELSE CeilDiv(IntPow(A, L), Min(IntPow(2, L), A))

AlphabetSizeOf(e) == IF GenOf(e) = "solana" THEN SolAlphabetSize ELSE HexAlphabetSize

\* The criteria have one constraint, which, of 1 to MaxEstLen characters.
OnlyConstraint(cr, which) ==
    /\ Len(cr[which]) \in 1..MaxEstLen
    /\ \A other \in Constraints \ {which} : cr[other] = << >>

\* C18: for criteria with only a prefix or only a suffix of L characters the
\* expected attempts are ceil(A^L) when case-sensitive and
\* ceil(A^L / min(2^L, A)) when not: 841 for a Base58 prefix of 2 characters
\* matched without case, 256 for a hex prefix of 2 matched with case.
C18_PrefixAttemptsExact ==
    \A which \in {"startsWith", "endsWith"} :
        (eResult.called /\ OnlyConstraint(eCriteria, which))
            => eResult.expectedAttempts =
                 DFromInt(ExactAttempts(AlphabetSizeOf(eEntry), Len(eCriteria[which]),
                                        eCriteria.caseSensitive))

\* The length of the address a substring is looked for in: 40 hex digits,
\* and the 44 characters of a Base58 public key.
AddressBodyLength(e) == IF GenOf(e) = "solana" THEN 44 ELSE addressLength

\* C19: for criteria with only a substring of L characters the estimated
\* probability is that of a prefix of the same L characters, multiplied by
\* the number of start offsets, addressBodyLength - L + 1, and clamped to 1.
C19_SubstringOffsetsAndClamp ==
    (eResult.called /\ OnlyConstraint(eCriteria, "contains"))
        => eResult.probability =
             MathMin(DMul(PatternFactor(One, eCriteria.contains, eCriteria.caseSensitive,
                                        AlphabetSizeOf(eEntry)),
                          DFromInt(AddressBodyLength(eEntry) - Len(eCriteria.contains) + 1)),
                     One)

\* C20: the expected attempts are Infinity exactly when the estimated
\* probability is 0, and ceil(1/p), a finite number, when it is above 0; the
\* expected time is Infinity exactly when the expected attempts are, and
\* expectedAttempts / 2000 * 1000 otherwise.
C20_UnboundedOnlyAtZero ==
    eResult.called =>
        /\ (eResult.expectedAttempts = Infinity) <=> DIsZero(eResult.probability)
        /\ DPositive(eResult.probability) =>
               /\ eResult.expectedAttempts.kind = "finite"
               /\ eResult.expectedAttempts = MathCeil(DDiv(One, eResult.probability))
        /\ (eResult.expectedTime = Infinity) <=> (eResult.expectedAttempts = Infinity)
        /\ eResult.expectedAttempts.kind = "finite" =>
               eResult.expectedTime =
                 DMul(DDiv(eResult.expectedAttempts, DFromInt(attemptsPerSecond)),
                      DFromInt(1000))

\* const { ..., caseSensitive = false } = criteria: the value of caseSensitive
\* when the options do not give it.
DefaultCaseSensitive == FALSE

\* x is n give or take 1.
About(x, n) == DLeq(DFromInt(n - 1), x) /\ DLeq(x, DFromInt(n + 1))

\* C21: with caseSensitive left at its default, the Base58 estimate for a
\* prefix of L = 1, 2, 3 characters is about 58^L expected attempts (58,
\* 3,364 and 195,112), and a substring of 3 characters has the estimate of a
\* prefix of 3 characters.
C21_ReadmeDifficulty ==
    (/\ eResult.called
     /\ GenOf(eEntry) = "solana"
     /\ eCriteria.caseSensitive = DefaultCaseSensitive)
        => /\ OnlyConstraint(eCriteria, "startsWith")
                => About(eResult.expectedAttempts,
                         IntPow(SolAlphabetSize, Len(eCriteria.startsWith)))
           /\ (OnlyConstraint(eCriteria, "contains") /\ Len(eCriteria.contains) = 3)
                => eResult.expectedAttempts =
                     estimateExpectedAttempts(
                         SolEstimateProbability(
                             [eCriteria EXCEPT !.startsWith = eCriteria.contains,
                                               !.contains = << >>]))

\* C22: every operation of the facade called with an address type other than
\* "solana" and "evm" fails with the unsupported-type error and calls no
\* generator, so that no keypair is generated.
C22_UnsupportedTypeFails ==
    (vIssues.called /\ vType \notin {"solana", "evm"})
        => vIssues.error = UnsupportedError /\ vIssues.routed = None

\* The identifier a generator's result is found by: the public key of a
\* Base58 result, the address of a hex one.
MatchedIdentifier(addressType, result) ==
    IF addressType = "solana" THEN result.publicKey ELSE result.address

\* C23: a request made through the facade runs only the generator of the
\* address type asked for (a "solana" request never resets the EVM
\* generator's stop flag nor enters a batch, an "evm" request never touches
\* isRunning and startTime of the Base58 generator), and the caller receives
\* the generator's outcome renamed: attempts, timeElapsed and privateKey as
\* they are, address the matched identifier, addressType the type asked for,
\* and null for null.
C23_FacadeRoutesAndRenames ==
    /\ [](ViaFacade(entry) =>
            \A c \in Calls :
                /\ call[c].pc = "found" =>
                     /\ Returned(c).attempts = call[c].result.attempts
                     /\ Returned(c).timeElapsed = call[c].result.timeElapsed
                     /\ Returned(c).privateKey = call[c].result.privateKey
                     /\ Returned(c).address =
                          MatchedIdentifier(AddressTypeOf(entry), call[c].result)
                     /\ Returned(c).addressType = AddressTypeOf(entry)
                     /\ ("address" \in DOMAIN call[c].result)
                          <=> (AddressTypeOf(entry) = "evm")
                /\ call[c].pc = "notfound" =>
                     call[c].result = Null /\ Returned(c) = Null
                /\ AddressTypeOf(entry) = "solana" => call[c].pc # "batch"
                /\ AddressTypeOf(entry) = "evm" => ~isRunning /\ startTime = 0)
    /\ [][(ViaFacade(entry) /\ AddressTypeOf(entry) = "solana" /\ shouldStop["evm"])
            => shouldStop'["evm"]]_vars

\* Through the facade an EVM search has returned a result found after the
\* first attempt, later than it began, and the other search of the run has
\* ended without a match.
C23_Witness ==
    /\ entry = "facade_evm"
    /\ \E c, d \in Calls :
         /\ call[c].pc = "found"
         /\ Returned(c).attempts > 1 /\ Returned(c).timeElapsed > 0
         /\ call[d].pc = "notfound"

\* The body of a hex address: what follows its "0x".
HexBody(address) == SubSeq(address, 3, Len(address))

\* C24: the hex generators test the constraints against the body of the
\* address, never against its "0x": the matcher of a search accepts exactly
\* the generated addresses whose body satisfies the criteria, and every
\* result carries such an address.
C24_HexBodyOnly ==
    Gen \in {"evm", "ethereum"} =>
        \A c \in Calls :
            /\ call[c].pc = "found" => MatchOn(HexBody(ReturnedAddress(c)), criteria)
            /\ call[c].gens > 0 =>
                 \A wallet \in Wallets :
                     MatcherOf(Gen, wallet.address, criteria)
                         <=> MatchOn(HexBody(wallet.address), criteria)

\* p is the first, the last, or some Len(p) characters in a row of s.
IsPrefix(p, s) == \E k \in 0..Len(s) : p = SubSeq(s, 1, k)

IsSuffix(p, s) == \E k \in 0..Len(s) : p = SubSeq(s, Len(s) - k + 1, Len(s))

IsSubstring(p, s) ==
    \E i \in 1..(Len(s) + 1) : \E k \in 0..(Len(s) - i + 1) : p = SubSeq(s, i, i + k - 1)

\* The lower-case letter of each upper-case letter.
LowerOf ==
    [ch \in Range(UpperSeq) |->
        LowerSeq[CHOOSE j \in 1..Len(UpperSeq) : UpperSeq[j] = ch]]

\* A string with its letters in lower case.
Fold(s) == [i \in 1..Len(s) |-> IF s[i] \in DOMAIN LowerOf THEN LowerOf[s[i]] ELSE s[i]]

\* A constraint holds of a string, with case or without.
Holds(which, p, s, caseSensitive) ==
    LET pattern == IF caseSensitive THEN p ELSE Fold(p)
        subject == IF caseSensitive THEN s ELSE Fold(s)
    IN CASE which = "startsWith" -> IsPrefix(pattern, subject)
         [] which = "endsWith" -> IsSuffix(pattern, subject)
         [] OTHER -> IsSubstring(pattern, subject)

\* The string a matcher tests: the EVM matcher removes the "0x", the
\* Ethereum matcher does not (C24).
SubjectOf(g, address) == IF g = "evm" THEN HexBody(address) ELSE address

\* The body of an address: the public key, or what follows "0x".
BodyOf(g, address) == IF g = "solana" THEN address ELSE HexBody(address)

\* C25: a matcher returns true exactly when every constraint that is given
\* (not empty) holds of the string it tests, the three of them together, and
\* false, with no error, when a pattern is longer than the body of the
\* address.
C25_AllConstraintsAnded ==
    matchResult.called =>
        /\ matchResult.matched \in BOOLEAN
        /\ matchResult.matched <=>
             \A which \in Constraints :
                 Truthy(matchCriteria[which]) =>
                     Holds(which, matchCriteria[which],
                           SubjectOf(matchGen, matchAddress),
                           matchCriteria.caseSensitive)
        /\ (\E which \in Constraints :
                Len(matchCriteria[which]) > Len(BodyOf(matchGen, matchAddress)))
             => ~matchResult.matched

\* A matcher has accepted an address under a prefix, a suffix and a
\* substring given together, one of which holds only without case.
C25_Witness ==
    /\ matchResult.called /\ matchResult.matched
    /\ \A which \in Constraints : Truthy(matchCriteria[which])
    /\ ~matchCriteria.caseSensitive
    /\ matchCriteria.contains # Fold(matchCriteria.contains)
    /\ matchCriteria.startsWith = Fold(matchCriteria.startsWith)

\* The criteria with every pattern in lower case, matched with case.
FoldedCriteria(cr) ==
    Criteria(Fold(cr.startsWith), Fold(cr.endsWith), Fold(cr.contains), TRUE)

\* The patterns that differ from p only in the case of their characters.
CaseVariants(p) == LET folded == Fold(p) IN {q \in MatchPatterns : Fold(q) = folded}

\* C26: without caseSensitive a matcher returns what it returns, with case,
\* for the address and the patterns in lower case; so it returns the same
\* when the case of characters of a pattern is changed; and the result of an accepted address holds the address as it
\* was generated, not in lower case.
C26_CaseFolded ==
    (matchResult.called /\ ~matchCriteria.caseSensitive) =>
        /\ matchResult.matched =
             Accepts(matchGen, Fold(matchAddress), FoldedCriteria(matchCriteria))
        /\ \A which \in Constraints :
               \A pattern \in CaseVariants(matchCriteria[which]) :
                   Accepts(matchGen, matchAddress,
                           [matchCriteria EXCEPT ![which] = pattern])
                       = matchResult.matched
        /\ matchResult.matched =>
               /\ matchResult.address = matchAddress
               /\ matchResult.address \in GeneratedAddresses(matchGen)

\* An address with an upper-case letter has been accepted for a pattern in
\* lower case, and is returned with its upper-case letter.
C26_Witness ==
    /\ matchResult.called /\ matchResult.matched
    /\ ~matchCriteria.caseSensitive
    /\ matchCriteria.startsWith = << "a" >>
    /\ matchResult.address # Fold(matchResult.address)
    /\ matchGen = "solana"

\* A search that has delivered its outcome.
Ended(c) == call[c].pc \in {"found", "notfound", "threw"}

\* C27: stop() may be called in any state between two callbacks and only
\* sets flags: it delivers nothing and raises nothing, a second stop() right
\* after it would change nothing, and the outcome of a search that has ended
\* stays as it was delivered.
C27_StopIdempotent ==
    [][Stop =>
         /\ AfterStop(isRunning', shouldStop') =
              [isRunning |-> isRunning', shouldStop |-> shouldStop']
         /\ \A c \in Calls : ~(Suspended(c)' /\ call'[c].stopGens = -1)
         /\ \A c \in Calls :
              /\ call'[c].pc = call[c].pc
              /\ call'[c].result = call[c].result
              /\ call'[c].error = call[c].error
              /\ Ended(c) => call'[c] = call[c]]_vars

\* stop() was called after an EVM search had returned its result, which is
\* still the outcome of the search.
C27_Witness ==
    /\ Gen = "evm"
    /\ shouldStop["evm"]
    /\ call["first"].pc = "found" /\ call["first"].stopGens = -1
    /\ call["second"].pc = "idle"

\* C28: an instance is used once: once one of its searches has ended, a
\* further generateVanityAddress call on it does not enter the search loop:
\* it is refused or returns at once.
C28_SingleUse ==
    [][\A c \in Calls :
         (call[c].pc = "idle" /\ \E d \in Calls : Ended(d))
            => (call'[c].pc = "idle" \/ Ended(c)')]_vars

\* The attempt counts at which a generator is said to report and yield.
Cadence == IF Gen = "evm" THEN BATCH_SIZE ELSE YieldEvery

\* A search waiting for the timer of its yield.
Yielded(c) == call[c].pc \in {"suspended", "yielded"}

\* The progress of a search kept to the cadence.
AtCadence(c) ==
    /\ call[c].progressCount > 0 => call[c].lastProgress % Cadence = 0
    /\ Yielded(c) => call[c].attempts % Cadence = 0

\* C29: within a search onProgress is called, and the search yields, only at
\* an attempt count that is a multiple of the cadence, and each onProgress is
\* given a greater count than the one before.
C29_ProgressAtCadence ==
    /\ [](\A c \in Calls : AtCadence(c))
    /\ [][\A c \in Calls :
            call'[c].progressCount > call[c].progressCount
               => call'[c].lastProgress > call[c].lastProgress]_vars

\* The Base58 and Ethereum generators keep to the cadence.
LoopsAtCadence == Gen # "evm" => \A c \in Calls : AtCadence(c)

\* The result of a search that found a match counts the keypairs of the
\* search, within the limit of attempts.
FoundWithin(c) ==
    call[c].pc = "found" =>
        /\ call[c].result.attempts = call[c].gens
        /\ 1 <= call[c].result.attempts
        /\ call[c].result.attempts <= call[c].maxAttempts

\* C30: a match ends the search at once: the search that has found generates
\* no further keypair, and the attempts of its result is the number of
\* keypairs the search generated, at least 1 and at most maxAttempts.
C30_MatchEndsSearch ==
    /\ [](\A c \in Calls : FoundWithin(c))
    /\ [][\A c \in Calls :
            call[c].pc = "found" => call'[c] = call[c]]_vars

\* The Base58 and Ethereum generators find within maxAttempts.
LoopsFoundWithin == Gen # "evm" => \A c \in Calls : FoundWithin(c)

\* The elapsed time a search reads at its time check and puts in its result:
\* Date.now() less this.startTime in the Base58 generator, less the local
\* startTime in the hex generators.
ElapsedRead(c) ==
    IF Gen = "solana" THEN now - startTime ELSE now - call[c].startTime

\* The elapsed time of a search in progress is that since its own start.
OwnElapsed(c) ==
    (active = c /\ call[c].pc \in {"loop", "batch"})
        => ElapsedRead(c) = now - call[c].t0

\* C31: the elapsed time a search compares with maxTime, and the timeElapsed
\* of the result it returns, are measured from the start of that search,
\* also when another call was started on the instance in between.
C31_ElapsedFromOwnStart ==
    /\ [](\A c \in Calls : OwnElapsed(c))
    /\ [][\A c \in Calls :
            (call[c].pc # "found" /\ call'[c].pc = "found")
               => call'[c].result.timeElapsed = now' - call'[c].t0]_vars

\* The hex generators keep the start instant in a local of the call.
LocalStartTime == Gen # "solana" => \A c \in Calls : OwnElapsed(c)

\* The keypairs a generator can produce, as address and private key.
GeneratedPairs ==
    IF Gen = "solana"
    THEN {[address |-> k.publicKey, privateKey |-> k.secretKey] : k \in SolKeypairs}
    ELSE {[address |-> w.address, privateKey |-> w.privateKey] : w \in Wallets}

\* The address and the private key a caller receives.
ReturnedPair(c) ==
    [address |-> ReturnedAddress(c), privateKey |-> Returned(c).privateKey]

\* C32: the private key of a returned result is that of the keypair whose
\* address is returned, a keypair the matcher accepts: no key of an attempt
\* that missed is in a result; a progress event carries an attempt count and
\* nothing else.
C32_KeyOfReturnedAddress ==
    \A c \in Calls :
        /\ call[c].pc = "found" =>
               /\ ReturnedPair(c) \in GeneratedPairs
               /\ MatcherOf(Gen, ReturnedPair(c).address, criteria)
        /\ call[c].pc # "found" => call[c].result = Null
        /\ call[c].lastProgress \in 0..call[c].attempts

\* A Base58 search through the facade has returned a result after an
\* attempt that missed.
C32_Witness ==
    \E c \in Calls :
        /\ call[c].pc = "found"
        /\ call[c].gens > 1
        /\ Gen = "solana"
        /\ ViaFacade(entry)

\* A step in which a search of the batch begins.
SearchBegins ==
    call["first"].pc # "loop" /\ call'["first"].pc = "loop"
        /\ call'["first"].attempts = 0

\* What a batch holds at any moment: no more results than asked for, each
\* matching the criteria, and once it has returned either all of them or
\* those gathered before the search that found nothing.
BatchGathered ==
    /\ Len(multi.results) <= multi.count
    /\ multi.i = Len(multi.results)
    /\ \A k \in 1..Len(multi.results) :
         SolMatchesCriteria(multi.results[k].publicKey, criteria)
    /\ multi.pc = "done" =>
         \/ Len(multi.results) = multi.count
         \/ call["first"].pc = "notfound"

\* C33: generateMultipleVanityAddresses begins a search only when the one
\* before has returned a result, returns at most count results that all
\* match, and returns what it has gathered at the first search that returns
\* null, a search ended by stop() included.
C33_BatchSequential ==
    /\ [](BatchGathered)
    /\ [][/\ SearchBegins => call["first"].pc \in {"idle", "found"}
          /\ (multi.pc = "awaiting" /\ call["first"].pc = "notfound"
                /\ multi' # multi)
               => (multi'.pc = "done" /\ multi'.results = multi.results)
          /\ multi.pc = "done" => (multi' = multi /\ ~SearchBegins)]_vars

\* A batch of two has returned one result: stop() ended its second search.
C33_Witness ==
    /\ multi.pc = "done"
    /\ multi.count = 2
    /\ Len(multi.results) = 1
    /\ call["first"].cause = "Cancelled"

\* The Workers that are constructed and not terminated.
LiveWorkers == {w \in MCalls : Alive(w)}

\* C34: between two handlers of an EVMWorkerManager the worker reference is
\* set exactly when isRunning is true, and the only Worker that is not
\* terminated, if any, is the one referred to.
C34_WorkerIffRunning ==
    /\ (worker # None) <=> wmIsRunning
    /\ Cardinality(LiveWorkers) <= 1
    /\ LiveWorkers = IF worker # None THEN {worker} ELSE {}

\* A second search runs in its own Worker and has posted a message, after
\* the Worker of the first was terminated and a call between them refused.
C34_Witness ==
    /\ worker = "m3"
    /\ wmIsRunning
    /\ "m1" \in terminated
    /\ promise["m2"].state = "rejected"
    /\ wmOp = "message"

\* A search that ended without a match had a reason of its own to end:
\* stop() came while it was suspended, or its attempts reached maxAttempts,
\* or its elapsed time was over maxTime.
EndedOnOwnAccount(c) ==
    call[c].pc = "notfound" =>
        \/ call[c].stopGens >= 0
        \/ call[c].attempts >= call[c].maxAttempts
        \/ call[c].over

\* C35: on a VanityAddressGenerator each search, overlapping another or not,
\* ends without a match only on its own account: the end of another search
\* of the instance does not end it.
C35_OverlapIndependent ==
    Gen = "solana" => \A c \in Calls : EndedOnOwnAccount(c)

\* A search that is alone on its instance ends on its own account.
AloneOnOwnAccount ==
    (Gen = "solana" /\ call["second"].pc = "idle") => EndedOnOwnAccount("first")

\* A search that stop() reached while it was suspended returns no match
\* afterwards.
StopKept(c) == call[c].stopGens >= 0 => call[c].pc # "found"

\* C36: a stop() that comes while a search is suspended at a yield is
\* honoured by that search, which returns not-found with no further match,
\* also when another call is started on the instance before it resumes.
C36_StopNotLost ==
    /\ [](\A c \in Calls : StopKept(c))
    /\ [][\A c \in Calls :
            call[c].stopGens >= 0 => call'[c].gens = call[c].gens]_vars

\* With no call started after the stop(), the search returns no match.
StopKeptAlone == call["second"].pc = "idle" => StopKept("first")

\* A search that stop() did not reach leaves no match unfound on account of
\* a stop(): it ends without a match only with its attempts or its time
\* used up.
NotCancelled(c) ==
    (call[c].pc = "notfound" /\ call[c].stopGens = -1) =>
        \/ call[c].attempts >= call[c].maxAttempts
        \/ call[c].over

\* A search that is neither waiting to be called nor over.
InProgress(c) == call[c].pc \notin {"idle", "found", "notfound", "threw"}

\* The flag the while condition of the generator reads lets the search go on.
LoopFlagClear == IF Gen = "solana" THEN isRunning ELSE ~shouldStop[Gen]

\* C37: a stop() made while no search is running leaves nothing behind for
\* the next search: a search entered while no other is in progress begins
\* with the flag of its loop clear, and a search alone on its instance that
\* stop() did not reach keeps it clear and ends without a match only with its
\* attempts or its time used up.
C37_StaleStopNoEffect ==
    /\ [](call["second"].pc = "idle" =>
            /\ (InProgress("first") /\ call["first"].stopGens = -1) => LoopFlagClear
            /\ NotCancelled("first"))
    /\ [][\A c \in Calls :
            (/\ call[c].pc = "idle" /\ call'[c].pc = "loop"
             /\ \A d \in Calls \ {c} : ~InProgress(d))
               => LoopFlagClear']_vars

\* stop() was called on the facade before a Base58 search, which is
\* generating keypairs all the same: the flag of the EVM generator still
\* shows the stop().
C37_Witness ==
    /\ entry = "facade_solana"
    /\ shouldStop["evm"]
    /\ active = "first" /\ call["first"].pc = "loop"
    /\ call["first"].gens >= 1 /\ call["first"].stopGens = -1
    /\ call["second"].pc = "idle"
    /\ isRunning

\* C38: every search that has begun ends, with a result, with null or with an
\* exception, whatever the clock, the stop() calls and the timers do; until
\* then each iteration of its loop adds one to its attempts, and nothing
\* else changes them.
C38_SearchTerminates ==
    /\ \A c \in Calls : InProgress(c) ~> Ended(c)
    /\ [][\A c \in Calls :
            InProgress(c) =>
               /\ call'[c].attempts \in {call[c].attempts, call[c].attempts + 1}
               /\ call'[c].gens > call[c].gens
                    => call'[c].attempts = call[c].attempts + 1]_vars

\* An EVM search has ended at its limit of attempts after a yield, with the
\* time over and another search begun meanwhile.
C38_Witness ==
    /\ Gen = "evm"
    /\ call["first"].pc = "notfound"
    /\ call["first"].cause = "AttemptsExhausted"
    /\ call["first"].progressCount >= 1
    /\ call["first"].over
    /\ call["second"].pc # "idle"

====
